---- MODULE Spec2Model ----
(***************************************************************************)
(* Wind-turbine data acquisition firmware (ESP32 / Arduino sketches).      *)
(*                                                                         *)
(* The components are modelled side by side; they share no state, so each  *)
(* has a specification of its own over the same variables:                 *)
(*   SpecPulse   rotation-edge interrupt and the main loop's read-and-zero *)
(*               (08_complete_integration.ino, 03_i2c_sensors.ino)         *)
(*   SpecTx      MQTT summary transmission, reconnect and alerting         *)
(*               (MQTT_Transmission_ESP32_nicer.ino)                       *)
(*   SpecLog     SD-card data file: boot, header, append, failure counter  *)
(*               (08_complete_integration.ino)                             *)
(*   SpecDerive  the sampling tick: read, air density, tip-speed ratio,    *)
(*               power coefficient, log line, alert                        *)
(*               (08_complete_integration.ino)                             *)
(*   SpecStats   the 300-sample buffers and calculateRecentStats           *)
(*               (MQTT_Transmission_ESP32_nicer.ino)                       *)
(*   SpecMain    loop() timing and reconnects                              *)
(*               (08_complete_integration.ino)                             *)
(*   SpecFsm     the guide's state-machine firmware and its error handler  *)
(*               (unnamed/part_001, complete_system.ino)                   *)
(* Spec is their interleaving.                                             *)
(*                                                                         *)
(* Numbers: the sketches compute in float; the model computes in fixed     *)
(* point with floor division, which differs from float only in the last    *)
(* digits. TLC integers are 32 bit, so the 2^32 wrap of the micros() clock *)
(* is scaled down to MicrosWrap.                                           *)
(***************************************************************************)
EXTENDS Integers, Sequences, FiniteSets, TLC

VARIABLES
  \* ---- PulseCounter (interrupt context and main loop) ----
  nowUs,             \* true time in microseconds since the clock's zero
  pulseCount,        \* volatile unsigned long pulseCount
  lastPulseTime_us,  \* volatile unsigned long lastPulseTime_us
  intEnabled,        \* CPU interrupt enable (noInterrupts / interrupts)
  pendingEdge,       \* the GPIO interrupt latch: an edge not yet serviced
  pcTake,            \* main loop's position in the read-and-zero exchange
  pulses,            \* the local `pulses` of readAllSensors
  edgesSeen,         \* history: falling edges raised by the sensor
  acceptedEdges,     \* history: edges the ISR accepted (counted)
  takenTotal,        \* history: sum of the values the exchange returned
  lastAcceptTime,    \* history: true time of the last accepted edge
  lastIsr,           \* history: outcome of the most recent ISR run
  \* ---- TelemetryPublisher (MQTT_Transmission_ESP32_nicer.ino) ----
  nowMs,             \* millis()
  wifiUp,            \* WiFi.status() == WL_CONNECTED
  mqttUp,            \* mqttClient.connected()
  lastTxMillis,      \* unsigned long lastTxMillis
  txRetryCount,      \* uint8_t txRetryCount
  pcLoop,            \* position in setup() / loop()
  intervalSends,     \* history: data-topic sends of the current interval
  intervalClosed,    \* history: the last send set lastTxMillis
  alertLogs,         \* history: logEvent calls of the most recent sendAlert
  alertPaths,        \* history: the sendAlert paths taken so far
  lastTx,            \* history: the most recent transmitAggregatedData call
  lastHandshake,     \* history: result of the most recent connectMQTT call
  lastAttemptMs,     \* history: millis() of the last handshake (-1: none)
  attemptGap,        \* history: time between the last two handshakes (-1: none)
  lastSentMs,        \* history: millis() of the last successful data publish (-1: none)
  sentGap,           \* history: time between the last two successful data publishes (-1: none)
  connFirst,         \* history: the first message published on this connection
  \* ---- LocalPersistenceLog (08_complete_integration.ino) ----
  sdOk,              \* environment: the card answers (SD.begin / SD.open work)
  fileExists,        \* /turbine_data.csv exists on the card
  fileLines,         \* its lines: "H" the CSV header, "R" a data record
  sdCardAvailable,   \* bool sdCardAvailable
  sdErrorCount,      \* int sdErrorCount
  pcBoot,            \* position in setup() / loop()
  consecFails,       \* history: failed writes since the last good one
  degraded,          \* history: logToSDCard gave the card up (line 544)
  lastTick,          \* history: what the last sampling tick did with the log
  fileBuffer,        \* lines printed to dataFile and not yet on the card
  produced,          \* history: records the sampling ticks have produced
  \* ---- DerivedQuantityCalculator (08_complete_integration.ino) ----
  reading,           \* currentData as read: wind, rpm, power, environment
  derived,           \* currentData's derived fields (zero before the first)
  pcDerive,          \* the next stage of the tick: read, derive, log, alert
  persisted,         \* history: what this tick's logToSDCard put on the card
  tickAlerts,        \* history: the alerts this tick has sent
  \* ---- RollingStatisticsAggregator (MQTT_Transmission_ESP32_nicer.ino) ----
  wind_speed_buffer, \* extern float wind_speed_buffer[300]
  power_buffer,      \* extern float power_buffer[300]
  writeIndex,        \* the slot the next add() fills
  stats,             \* the StatsSummary calculateRecentStats returned last
  added,             \* history: the records add() was given, oldest first
  statsFresh,        \* history: no add() since the last calculateRecentStats
  closesSinceAdd,    \* history: calculateRecentStats calls since the last add()
  \* ---- main loop and network of 08_complete_integration.ino ----
  millisNow,         \* millis()
  currentTime,       \* loop()'s local currentTime
  lastSampleTime,    \* unsigned long lastSampleTime
  lastMQTTPublish,   \* unsigned long lastMQTTPublish
  lastWiFiCheck,     \* unsigned long lastWiFiCheck
  wifiConnected,     \* bool wifiConnected
  mqttConnected,     \* bool mqttConnected
  mqttErrorCount,    \* int mqttErrorCount
  wifiStatus,        \* WiFi.status() == WL_CONNECTED
  clientConnected,   \* mqttClient.connected()
  pcMain,            \* position in setup() / loop()
  startTime,         \* history: millis() at the end of setup()
  handshakes,        \* history: mqttClient.connect calls of the last reconnectMQTT
  blockedMs,         \* history: time the last reconnectMQTT spent in delay()
  sampleGap,         \* history: time between the last two sampling ticks
  lastPublish,       \* history: what the last publishToMQTT call did
  samplesTaken,      \* history: sampling ticks run since setup()
  serverSet,         \* mqttClient.setServer has been called
  connectUnset,      \* history: mqttClient.connect was called before setServer
  lastTakeMs,        \* history: millis() when pulseCount was last zeroed
  rpmPeriod,         \* readAllSensors' local rpmPeriod at the last tick, in ms
  countWindow,       \* history: time over which the pulses of the last tick were counted
  \* ---- firmware state machine (unnamed/part_001, complete_system.ino) ----
  currentState,      \* SystemState currentState
  errorFlags,        \* uint8_t errorFlags, as the set of flags that are set
  sampleReady,       \* volatile bool sampleReady
  timerOn,           \* setupSampleTimer has been called
  pcFsm,             \* "setup" or "loop"
  hw,                \* environment: which subsystems answer
  lastCleared,       \* history: the flags cleared by the last step that cleared any
  \* ---- elapsed-time test on the wrapping millis() clock (unnamed/part_001) ----
  trueMs,            \* true time in ms since boot (millis() is trueMs modulo the wrap)
  lastLogTime,       \* unsigned long lastLogTime
  lastLogTrue,       \* history: true time at which lastLogTime was taken
  pcTimer,           \* "wait" (time passes) or "check" (the next pass of loop())
  timerFired,        \* history: the last pass of loop() found the interval elapsed
  lastElapsed,       \* history: true time since lastLogTime at that pass
  lastWrapped,       \* history: millis() had wrapped since lastLogTime at that pass
  \* ---- calculateCp and its unit test (unnamed/part_001, calculations.cpp) ----
  cpArgs,            \* the arguments of the last calculateCp call
  cpResult,          \* the value it returned, in 1/10000
  cpTest,            \* the test of testCalculateCp that made the call (0: not a test)
  cpAssert,          \* that test's assertion held
  \* ---- MQTT publisher of example 07 (07_mqtt_publish.ino) ----
  brokerUp,          \* environment: the broker answers a connection attempt
  pubConnected,      \* mqttClient.connected()
  reconnectAttempts, \* int reconnectAttempts
  pcPub,             \* "setup", "loop" (top of loop()), "connect" (in connectMQTT) or "publish"
  connectFrom,       \* the caller of the connectMQTT in progress: "setup" or "loop"
  sincePublish,      \* millis() - lastPublishTime, held at PUBLISH_INTERVAL_MS once it is reached
  lastPass           \* history: what the last pass of loop() did at its publish test

pulseVars == <<nowUs, pulseCount, lastPulseTime_us, intEnabled, pendingEdge,
               pcTake, pulses, edgesSeen, acceptedEdges, takenTotal,
               lastAcceptTime, lastIsr>>

txHist == <<lastTx, lastHandshake, lastAttemptMs, attemptGap, lastSentMs,
           sentGap>>

txVars == <<nowMs, wifiUp, mqttUp, lastTxMillis, txRetryCount, pcLoop,
            intervalSends, intervalClosed, alertLogs, alertPaths, txHist,
            connFirst>>

logVars == <<sdOk, fileExists, fileLines, sdCardAvailable, sdErrorCount,
             pcBoot, consecFails, degraded, lastTick, fileBuffer, produced>>

deriveVars == <<reading, derived, pcDerive, persisted, tickAlerts>>

statsVars == <<wind_speed_buffer, power_buffer, writeIndex, stats, added,
               statsFresh, closesSinceAdd>>

rpmVars == <<lastTakeMs, rpmPeriod, countWindow>>

mainVars == <<millisNow, currentTime, lastSampleTime, lastMQTTPublish,
              lastWiFiCheck, wifiConnected, mqttConnected, mqttErrorCount,
              wifiStatus, clientConnected, pcMain, startTime, handshakes,
              blockedMs, sampleGap, lastPublish,
                 samplesTaken, serverSet,
             connectUnset, rpmVars>>

fsmVars == <<currentState, errorFlags, sampleReady, timerOn, pcFsm, hw,
             lastCleared>>

timerVars == <<trueMs, lastLogTime, lastLogTrue, pcTimer, timerFired, lastElapsed, lastWrapped>>

cpVars == <<cpArgs, cpResult, cpTest, cpAssert>>

pubVars == <<brokerUp, pubConnected, reconnectAttempts, pcPub, connectFrom, sincePublish, lastPass>>

vars == <<pulseVars, txVars, logVars, deriveVars, statsVars, mainVars,
          fsmVars,
          timerVars,
          cpVars,
          pubVars>>

\* ------------------------------------------------------------------------
\* Arithmetic helpers
\* ------------------------------------------------------------------------

\* Stand-in for 2^32, the modulus of micros() (unsigned long on the ESP32).
MicrosWrap == 8000

\* Unsigned subtraction a - b of two clock readings, modulo the clock width.
USub(a, b) == (a - b) % MicrosWrap

\* ------------------------------------------------------------------------
\* PulseCounter
\* ------------------------------------------------------------------------

DEBOUNCE_DELAY_US == 1000

\* Granularity of modelled time, time at which the ISR is attached (setup()
\* has slept at least a second by then), end of the modelled run, and the
\* number of sensor edges in a run.
TickUs == 500
AttachTimeUs == 2000
MaxTimeUs == 18000
MaxEdges == 4

\* micros(): the true time seen through the wrapping counter.
Micros == nowUs % MicrosWrap

\* The ISR's debounce test, with a >= slip as its mutant.
DebouncePassSlack(cur, last) == USub(cur, last) >= DEBOUNCE_DELAY_US
DebouncePass(cur, last) == USub(cur, last) > DEBOUNCE_DELAY_US

\* An enabled CPU services a latched edge at once: nothing else runs first.
IsrPending == intEnabled /\ pendingEdge

PulseInit ==
  /\ nowUs = AttachTimeUs
  /\ pulseCount = 0
  /\ lastPulseTime_us = 0
  /\ intEnabled = TRUE
  /\ pendingEdge = FALSE
  /\ pcTake = "idle"
  /\ pulses = 0
  /\ edgesSeen = 0
  /\ acceptedEdges = 0
  /\ takenTotal = 0
  /\ lastAcceptTime = 0
  /\ lastIsr = "none"

\* Time passes (only outside the few-cycle exchange and never while an
\* interrupt is waiting on an enabled CPU).
AdvanceTime ==
  /\ ~IsrPending
  /\ pcTake = "idle"
  /\ nowUs + TickUs <= MaxTimeUs
  /\ nowUs' = nowUs + TickUs
  /\ UNCHANGED <<pulseCount, lastPulseTime_us, intEnabled, pendingEdge, pcTake,
                 pulses, edgesSeen, acceptedEdges, takenTotal, lastAcceptTime,
                 lastIsr>>

\* The Hall sensor pulls the pin low: the GPIO latches the interrupt.
HallEdge ==
  /\ ~IsrPending
  /\ edgesSeen < MaxEdges
  /\ pendingEdge' = TRUE
  /\ edgesSeen' = edgesSeen + 1
  /\ UNCHANGED <<nowUs, pulseCount, lastPulseTime_us, intEnabled, pcTake,
                 pulses, acceptedEdges, takenTotal, lastAcceptTime, lastIsr>>

\* void IRAM_ATTR hallSensorISR()
HallSensorISR ==
  /\ IsrPending
  /\ pendingEdge' = FALSE
  /\ IF DebouncePass(Micros, lastPulseTime_us)
       THEN /\ pulseCount' = pulseCount + 1
            /\ lastPulseTime_us' = Micros
            /\ acceptedEdges' = acceptedEdges + 1
            /\ lastAcceptTime' = nowUs
            /\ lastIsr' = "accepted"
       ELSE /\ lastIsr' = "rejected"
            /\ UNCHANGED <<pulseCount, lastPulseTime_us, acceptedEdges,
                           lastAcceptTime>>
  /\ UNCHANGED <<nowUs, intEnabled, pcTake, pulses, edgesSeen, takenTotal>>

\* noInterrupts(), with the unprotected variant (the call left out) as mutant.
NoInterruptsLeftOut ==
  /\ ~IsrPending
  /\ pcTake = "idle"
  /\ pcTake' = "masked"
  /\ UNCHANGED <<nowUs, pulseCount, lastPulseTime_us, intEnabled, pendingEdge,
                 pulses, edgesSeen, acceptedEdges, takenTotal, lastAcceptTime,
                 lastIsr>>
NoInterrupts ==
  /\ ~IsrPending
  /\ pcTake = "idle"
  /\ intEnabled' = FALSE
  /\ pcTake' = "masked"
  /\ UNCHANGED <<nowUs, pulseCount, lastPulseTime_us, pendingEdge, pulses,
                 edgesSeen, acceptedEdges, takenTotal, lastAcceptTime, lastIsr>>

\* unsigned long pulses = pulseCount;
ReadPulseCount ==
  /\ ~IsrPending
  /\ pcTake = "masked"
  /\ pulses' = pulseCount
  /\ pcTake' = "read"
  /\ UNCHANGED <<nowUs, pulseCount, lastPulseTime_us, intEnabled, pendingEdge,
                 edgesSeen, acceptedEdges, takenTotal, lastAcceptTime, lastIsr>>

\* pulseCount = 0;
ZeroPulseCount ==
  /\ ~IsrPending
  /\ pcTake = "read"
  /\ pulseCount' = 0
  /\ pcTake' = "zeroed"
  /\ UNCHANGED <<nowUs, lastPulseTime_us, intEnabled, pendingEdge, pulses,
                 edgesSeen, acceptedEdges, takenTotal, lastAcceptTime, lastIsr>>

\* interrupts(); the exchange hands `pulses` to the rpm computation.
Interrupts ==
  /\ ~IsrPending
  /\ pcTake = "zeroed"
  /\ intEnabled' = TRUE
  /\ takenTotal' = takenTotal + pulses
  /\ pcTake' = "idle"
  /\ UNCHANGED <<nowUs, pulseCount, lastPulseTime_us, pendingEdge, pulses,
                 edgesSeen, acceptedEdges, lastAcceptTime, lastIsr>>

\* ------------------------------------------------------------------------
\* TelemetryPublisher: MQTT_Transmission_ESP32_nicer.ino
\* ------------------------------------------------------------------------

cfg_intervalMs == 300000
cfg_maxRetry == 3

\* Granularity and end of modelled time; cap of the send history counter.
TxTickMs == 150000
MaxNowMs == 900000
MaxSendsTracked == 5

Min(a, b) == IF a < b THEN a ELSE b

TxInit ==
  /\ nowMs = 0
  /\ wifiUp = FALSE
  /\ mqttUp = FALSE
  /\ lastTxMillis = 0
  /\ txRetryCount = 0
  /\ pcLoop = "setup"
  /\ intervalSends = 0
  /\ intervalClosed = TRUE
  /\ alertLogs = 0
  /\ alertPaths = {}
  /\ lastTx = [path |-> "none", sends |-> 0]
  /\ lastHandshake = "none"
  /\ lastAttemptMs = -1
  /\ attemptGap = -1
  /\ lastSentMs = -1
  /\ sentGap = -1
  /\ connFirst = "none"

\* void connectMQTT(): one handshake; `ok` is the broker's answer.
\* Yields <<mqttUp, txRetryCount>> after the call. Its variant takes the
\* client for connected whatever the answer.
ConnectMQTTOptimistic(wifi, ok) ==
  IF ~wifi THEN <<mqttUp, txRetryCount>> ELSE <<TRUE, 0>>
ConnectMQTT(wifi, ok) ==
  IF ~wifi THEN <<mqttUp, txRetryCount>>
  ELSE IF ok THEN <<TRUE, 0>>
  ELSE <<mqttUp, txRetryCount>>

\* connectMQTT(): publishStatusOnline() right after a successful handshake,
\* so the retained status is the connection's first message; with leaving
\* the status out as its variant.
FirstOnConnectNoStatus(wifi, ok) == connFirst
FirstOnConnect(wifi, ok) == IF wifi /\ ok THEN "status" ELSE connFirst

\* The connection's first message after a publish of the given kind.
NoteMessage(kind) == IF connFirst = "none" THEN kind ELSE connFirst

\* What a connectMQTT() call did: no handshake without Wi-Fi, else one.
HandshakeResult(wifi, ok) ==
  IF ~wifi THEN "skipped" ELSE IF ok THEN "ok" ELSE "failed"

\* The handshake times after a connectMQTT() call.
NoteHandshake(wifi) ==
  IF wifi
    THEN /\ lastAttemptMs' = nowMs
         /\ attemptGap' = IF lastAttemptMs < 0 THEN -1 ELSE nowMs - lastAttemptMs
    ELSE UNCHANGED <<lastAttemptMs, attemptGap>>

\* void setup(): Wi-Fi bring-up (`wifi` is its outcome), then connectMQTT().
TxSetup ==
  /\ pcLoop = "setup"
  /\ \E wifi \in BOOLEAN, ok \in BOOLEAN :
       /\ wifiUp' = wifi
       /\ mqttUp' = ConnectMQTT(wifi, ok)[1]
       /\ txRetryCount' = ConnectMQTT(wifi, ok)[2]
       /\ lastHandshake' = HandshakeResult(wifi, ok)
       /\ NoteHandshake(wifi)
       /\ connFirst' = FirstOnConnect(wifi, ok)
  /\ pcLoop' = "maintain"
  /\ UNCHANGED <<nowMs, lastTxMillis, intervalSends, intervalClosed, alertLogs, alertPaths>>
  /\ UNCHANGED <<lastTx, lastSentMs, sentGap>>

\* void maintainMQTTConnection()
MaintainMQTTConnection ==
  /\ pcLoop = "maintain"
  /\ IF wifiUp /\ ~mqttUp
       THEN \E ok \in BOOLEAN :
              /\ mqttUp' = ConnectMQTT(wifiUp, ok)[1]
              /\ txRetryCount' = ConnectMQTT(wifiUp, ok)[2]
              /\ lastHandshake' = HandshakeResult(wifiUp, ok)
              /\ NoteHandshake(wifiUp)
              /\ connFirst' = FirstOnConnect(wifiUp, ok)
       ELSE UNCHANGED <<mqttUp, txRetryCount, lastHandshake, lastAttemptMs,
                        attemptGap, connFirst>>
  /\ pcLoop' = "transmit"
  /\ UNCHANGED <<nowMs, wifiUp, lastTxMillis, intervalSends, intervalClosed, alertLogs,
                 alertPaths>>
  /\ UNCHANGED <<lastTx, lastSentMs, sentGap>>

\* if (now - lastTxMillis < cfg.intervalMs) return;  with transmitting on
\* every call as its variant.
TxDueAlways(now, last) == TRUE
TxDue(now, last) == now - last >= cfg_intervalMs

\* The publish calls on the data topic one transmitAggregatedData() makes:
\* one, if connected and due; with leaving out the connection test as its
\* variant.
DataSendsUnchecked(conn, due) == IF due THEN 1 ELSE 0
DataSends(conn, due) == IF conn /\ due THEN 1 ELSE 0

\* txRetryCount after a failed publish: txRetryCount++, then back to 0 once
\* it has reached cfg.maxRetry; with leaving out the reset as its variant.
RetryAfterFailureNoReset(count) == count + 1
RetryAfterFailure(count) ==
  IF count + 1 >= cfg_maxRetry THEN 0 ELSE count + 1

\* The path a transmitAggregatedData() call takes.
TxPath(conn, due, ok, count) ==
  IF ~conn THEN "offline"
  ELSE IF ~due THEN "notdue"
  ELSE IF ok THEN "sent"
  ELSE IF count + 1 >= cfg_maxRetry THEN "abandoned"
  ELSE "retry"

\* void transmitAggregatedData(): `ok` is the result of mqttClient.publish.
\* An interval runs from one assignment of lastTxMillis to the next.
TransmitAggregatedData ==
  /\ pcLoop = "transmit"
  /\ pcLoop' = "alert"
  /\ LET due == TxDue(nowMs, lastTxMillis)
         n == DataSends(mqttUp, due)
     IN IF n = 0
          THEN /\ lastTx' = [path |-> TxPath(mqttUp, due, TRUE, txRetryCount),
                             sends |-> 0]
               /\ UNCHANGED <<lastTxMillis, txRetryCount, intervalSends,
                              intervalClosed, connFirst, lastSentMs, sentGap>>
          ELSE
            /\ connFirst' = NoteMessage("data")
            /\ intervalSends' = IF intervalClosed THEN 1
                                ELSE Min(intervalSends + 1, MaxSendsTracked)
            /\ \E ok \in BOOLEAN :
                 /\ lastTx' = [path |-> TxPath(TRUE, TRUE, ok, txRetryCount),
                               sends |-> n]
                 /\ IF ok
                      THEN /\ lastTxMillis' = nowMs
                           /\ txRetryCount' = 0
                           /\ intervalClosed' = TRUE
                           /\ lastSentMs' = nowMs
                           /\ sentGap' = IF lastSentMs < 0 THEN -1
                                         ELSE nowMs - lastSentMs
                    ELSE IF txRetryCount + 1 >= cfg_maxRetry
                      THEN /\ txRetryCount' = RetryAfterFailure(txRetryCount)
                           /\ lastTxMillis' = nowMs
                           /\ intervalClosed' = TRUE
                           /\ UNCHANGED <<lastSentMs, sentGap>>
                      ELSE /\ txRetryCount' = RetryAfterFailure(txRetryCount)
                           /\ intervalClosed' = FALSE
                           /\ UNCHANGED <<lastTxMillis, lastSentMs, sentGap>>
  /\ UNCHANGED <<nowMs, wifiUp, mqttUp, alertLogs, alertPaths, lastHandshake,
                 lastAttemptMs, attemptGap>>

\* void sendAlert(): the number of logEvent calls on each of its paths
\* (offline: log and return; online: publish, then log whatever `ok` is),
\* with logging only a failed publish as mutant.
AlertLogCallsOnFailureOnly(conn, ok) == IF ~conn THEN 1 ELSE IF ok THEN 0 ELSE 1
AlertLogCalls(conn, ok) == IF ~conn THEN 1 ELSE 1

AlertPath(conn, ok) == IF ~conn THEN "offline" ELSE IF ok THEN "sent" ELSE "failed"

\* The tail of loop(): the overpower test and sendAlert("OVERPOWER", ...).
AlertCheck ==
  /\ pcLoop = "alert"
  /\ pcLoop' = "maintain"
  /\ \E over \in BOOLEAN, ok \in BOOLEAN :
       IF over
         THEN /\ alertLogs' = AlertLogCalls(mqttUp, ok)
              /\ alertPaths' = alertPaths \cup {AlertPath(mqttUp, ok)}
              /\ connFirst' = IF mqttUp THEN NoteMessage("alert") ELSE connFirst
         ELSE UNCHANGED <<alertLogs, alertPaths, connFirst>>
  /\ UNCHANGED <<nowMs, wifiUp, mqttUp, lastTxMillis, txRetryCount,
                 intervalSends, intervalClosed, txHist>>

\* Environment: the broker connection drops.
ConnectionLost ==
  /\ pcLoop # "setup"
  /\ mqttUp
  /\ mqttUp' = FALSE
  /\ connFirst' = "none"
  /\ UNCHANGED <<nowMs, wifiUp, lastTxMillis, txRetryCount, pcLoop,
                 intervalSends, intervalClosed, alertLogs, alertPaths, txHist>>

\* Environment: Wi-Fi goes away (taking the broker connection) or comes back.
WifiChange ==
  /\ pcLoop # "setup"
  /\ wifiUp' = ~wifiUp
  /\ mqttUp' = IF wifiUp THEN FALSE ELSE mqttUp
  /\ connFirst' = IF wifiUp THEN "none" ELSE connFirst
  /\ UNCHANGED <<nowMs, lastTxMillis, txRetryCount, pcLoop, intervalSends,
                 intervalClosed, alertLogs, alertPaths, txHist>>

\* Environment: time passes.
TxTick ==
  /\ pcLoop # "setup"
  /\ nowMs + TxTickMs <= MaxNowMs
  /\ nowMs' = nowMs + TxTickMs
  /\ UNCHANGED <<wifiUp, mqttUp, lastTxMillis, txRetryCount, pcLoop,
                 intervalSends, intervalClosed, alertLogs, alertPaths, txHist,
                 connFirst>>

\* ------------------------------------------------------------------------
\* LocalPersistenceLog: SD card logging of 08_complete_integration.ino
\* ------------------------------------------------------------------------

\* The failure count logToSDCard compares sdErrorCount with.
MAX_CONSECUTIVE_FAILURES == 10

\* Longest data file and number of sampling ticks of a modelled run.
MaxFileLines == 3
MaxTicks == 13

LogInit ==
  /\ sdOk = TRUE
  /\ fileExists = FALSE
  /\ fileLines = <<>>
  /\ sdCardAvailable = FALSE
  /\ sdErrorCount = 0
  /\ pcBoot = "initSD"
  /\ consecFails = 0
  /\ degraded = FALSE
  /\ lastTick = "none"
  /\ fileBuffer = <<>>
  /\ produced = 0

\* dataFile.close(): the lines printed since the open go to the card.
\* Yields <<lines on the card, lines still in the buffer>>; its variant
\* leaves them in the buffer.
CloseFileUnflushed(lines, buf) == <<lines, buf>>
CloseFile(lines, buf) == <<lines \o buf, <<>>>>

\* SD.exists(DATA_FILENAME): a card that does not answer shows no file.
SdExists == sdOk /\ fileExists

\* void initializeSDCard()
InitializeSDCard ==
  /\ pcBoot = "initSD"
  /\ IF sdOk
       THEN sdCardAvailable' = TRUE /\ UNCHANGED sdErrorCount
       ELSE sdErrorCount' = sdErrorCount + 1 /\ UNCHANGED sdCardAvailable
  /\ pcBoot' = "setupFile"
  /\ UNCHANGED <<sdOk, fileExists, fileLines, consecFails, degraded, lastTick,
                 fileBuffer, produced>>

\* setup(): if (sdCardAvailable) setupDataFile();
\* SD.open(FILE_WRITE) creates the file; it fails when the card does not answer.
SetupDataFile ==
  /\ pcBoot = "setupFile"
  /\ IF sdCardAvailable /\ ~SdExists /\ sdOk
       THEN /\ fileExists' = TRUE
            /\ fileLines' = CloseFile(<<>>, <<"H">>)[1]
            /\ fileBuffer' = CloseFile(<<>>, <<"H">>)[2]
       ELSE UNCHANGED <<fileExists, fileLines, fileBuffer>>
  /\ pcBoot' = "loop"
  /\ UNCHANGED <<sdOk, sdCardAvailable, sdErrorCount, consecFails, degraded,
                 lastTick, produced>>

\* The degradation test of logToSDCard, with the threshold reached one
\* failure early as mutant.
GivesUpEarly(count) == count > MAX_CONSECUTIVE_FAILURES - 1
GivesUp(count) == count > MAX_CONSECUTIVE_FAILURES

\* loop(): if (sdCardAvailable) logToSDCard();
\* SD.open(FILE_APPEND) creates a missing file; the record is printed and
\* the file closed. The flush block of loop() (219-225) finds dataFile
\* closed and does nothing.
SampleTick ==
  /\ pcBoot = "loop"
  /\ produced < MaxTicks
  /\ produced' = produced + 1
  /\ (sdCardAvailable /\ sdOk) => Len(fileLines) < MaxFileLines
  /\ IF ~sdCardAvailable
       THEN /\ lastTick' = "skipped"
            /\ UNCHANGED <<fileExists, fileLines, sdCardAvailable, sdErrorCount,
                           consecFails, degraded, fileBuffer>>
     ELSE IF sdOk
       THEN /\ fileExists' = TRUE
            /\ fileLines' = CloseFile(fileLines, <<"R">>)[1]
            /\ fileBuffer' = CloseFile(fileLines, <<"R">>)[2]
            /\ sdErrorCount' = 0
            /\ consecFails' = 0
            /\ lastTick' = "written"
            /\ UNCHANGED <<sdCardAvailable, degraded>>
       ELSE /\ sdErrorCount' = sdErrorCount + 1
            /\ consecFails' = consecFails + 1
            /\ sdCardAvailable' = ~GivesUp(sdErrorCount + 1)
            /\ degraded' = GivesUp(sdErrorCount + 1)
            /\ lastTick' = "failed"
            /\ UNCHANGED <<fileExists, fileLines, fileBuffer>>
  /\ UNCHANGED <<sdOk, pcBoot>>

\* Power cycle or reset: the globals start over, the card keeps its file.
Reboot ==
  /\ pcBoot = "loop"
  /\ sdCardAvailable' = FALSE
  /\ sdErrorCount' = 0
  /\ pcBoot' = "initSD"
  /\ consecFails' = 0
  /\ degraded' = FALSE
  /\ lastTick' = "none"
  /\ fileBuffer' = <<>>
  /\ UNCHANGED <<sdOk, fileExists, fileLines, produced>>

\* Environment: the card stops answering (loose contact, removed) or
\* answers again.
SdFaultChange ==
  /\ sdOk' = ~sdOk
  /\ UNCHANGED <<fileExists, fileLines, sdCardAvailable, sdErrorCount, pcBoot,
                 consecFails, degraded, lastTick, fileBuffer, produced>>

\* ------------------------------------------------------------------------
\* DerivedQuantityCalculator: calculateDerivedValues of
\* 08_complete_integration.ino
\*
\* Fixed point units: wind speed in 0.1 m/s, rotor speed in rpm, power in
\* mW, temperature in 0.01 K, pressure in Pa, air density in g/m^3, wind
\* power in 10 uW, lambda and Cp in 1/10000. Divisions are floor divisions,
\* ordered so that every intermediate value fits 32 bits. The sentinel -999
\* reads -999000 mW as a power and SENTINEL_CP as a Cp.
\* ------------------------------------------------------------------------

\* The readings a run draws from: wind speeds on both sides of 0.1 m/s and
\* of 0.5 m/s; powers that put Cp below 0.593, between 0.593 and 0.6, and
\* above 0.6; a missing power monitor; a missing and a present BME280.
WindSpeeds == {0, 3, 4, 5, 6, 30, 80}
Rpms == {0, 50, 300}
Powers == {-999000, 0, 17, 100, 250000, 336000, 340000, 800000}
Environments == {[bme |-> FALSE, tempCK |-> 0, pressurePa |-> 0],
                 [bme |-> TRUE, tempCK |-> 28815, pressurePa |-> 101325],
                 [bme |-> TRUE, tempCK |-> 30315, pressurePa |-> 100000]}

SENTINEL_CP == -9990000
WIND_GUARD_DMS == 1
STANDARD_DENSITY == 1225
R_SPECIFIC_E2 == 28705
SWEPT_AREA_E1 == 18
ROTOR_RADIUS_E1 == 6
PI_E4 == 31416

\* rho = P / (R_specific * T), or the sea-level constant without a BME280.
AirDensity(env) ==
  IF env.bme
    THEN (env.pressurePa * 1000) \div ((R_SPECIFIC_E2 * env.tempCK) \div 10000)
    ELSE STANDARD_DENSITY

\* The guard of the lambda and Cp branches: wind_speed_ms > 0.1.
WindAboveGuard(wind) == wind > WIND_GUARD_DMS

\* omega = rpm * 2 PI / 60; tipSpeed = omega * R; lambda = tipSpeed / V.
Lambda(rpm, wind) ==
  IF WindAboveGuard(wind)
    THEN (rpm * 2 * PI_E4 * ROTOR_RADIUS_E1) \div (60 * wind)
    ELSE 0

\* windPower = 0.5 * rho * A * V^3  (rho * 9 * V^3 / 100 in 10 uW).
WindPower(rho, wind) ==
  LET k == (rho * SWEPT_AREA_E1) \div 2
      v3 == wind * wind * wind
  IN k * (v3 \div 100) + (k * (v3 % 100)) \div 100

\* power / windPower in 1/10000, digit by digit (power in mW).
Ratio(power, wp) ==
  LET p == power * 100
      r1 == (10 * p) % wp
      r2 == (10 * r1) % wp
      r3 == (10 * r2) % wp
  IN 1000 * ((10 * p) \div wp) + 100 * ((10 * r1) \div wp)
       + 10 * ((10 * r2) \div wp) + (10 * r3) \div wp

\* The sanity check of the Cp branch: cp > 0.6, that is 5 * power > 3 *
\* windPower.
ExceedsSanityLimit(power, wp) == 5 * (power * 100) > 3 * wp

\* The Cp branch: the ratio, the sentinel above the sanity limit, 0 when the
\* guard fails.
Cp(power, rho, wind) ==
  IF WindAboveGuard(wind) /\ power > 0
    THEN IF ExceedsSanityLimit(power, WindPower(rho, wind))
           THEN SENTINEL_CP
           ELSE Ratio(power, WindPower(rho, wind))
    ELSE 0

\* int getSeverityLevel(const String& type)
GetSeverityLevel(type) ==
  IF type \in {"OVERSPEED", "SENSOR_FAULT_CRITICAL"} THEN 3
  ELSE IF type \in {"SD_CARD_FULL", "CALIBRATION_DRIFT"} THEN 2
  ELSE 1

\* No record of the tick is on the card (yet).
NothingPersisted == [written |-> FALSE, lambda |-> 0, cp |-> 0]

DeriveInit ==
  /\ reading = [wind |-> 0, rpm |-> 0, power |-> 0,
                env |-> [bme |-> FALSE, tempCK |-> 0, pressurePa |-> 0]]
  /\ derived = [rho |-> 0, lambda |-> 0, cp |-> 0]
  /\ pcDerive = "read"
  /\ persisted = NothingPersisted
  /\ tickAlerts = {}

\* void readAllSensors(): the drivers' values are the environment's choice.
ReadAllSensors ==
  /\ pcDerive = "read"
  /\ \E w \in WindSpeeds, n \in Rpms, pw \in Powers, e \in Environments :
       reading' = [wind |-> w, rpm |-> n, power |-> pw, env |-> e]
  /\ pcDerive' = "derive"
  /\ persisted' = NothingPersisted
  /\ tickAlerts' = {}
  /\ UNCHANGED derived

\* void calculateDerivedValues()
CalculateDerivedValues ==
  /\ pcDerive = "derive"
  /\ derived' = [rho |-> AirDensity(reading.env),
                 lambda |-> Lambda(reading.rpm, reading.wind),
                 cp |-> Cp(reading.power, AirDensity(reading.env), reading.wind)]
  /\ pcDerive' = "log"
  /\ UNCHANGED <<reading, persisted, tickAlerts>>

\* loop(), "Log to SD card": logToSDCard() prints the derived fields as they
\* are; `stored` is whether the card is available and the file opens.
LogDerived ==
  /\ pcDerive = "log"
  /\ \E stored \in BOOLEAN :
       persisted' = IF stored
                      THEN [written |-> TRUE, lambda |-> derived.lambda,
                            cp |-> derived.cp]
                      ELSE NothingPersisted
  /\ pcDerive' = "alert"
  /\ UNCHANGED <<reading, derived, tickAlerts>>

\* The one alert the firmware raises, at the tail of loop() of
\* MQTT_Transmission_ESP32_nicer.ino: current_power > RATED_POWER * 1.2f.
\* RATED_POWER is defined nowhere in the repository, so whether a positive
\* power is over it is left open. 08_complete_integration.ino sends no
\* alert at all.
OverpowerAlert ==
  /\ pcDerive = "alert"
  /\ \E over \in BOOLEAN :
       tickAlerts' = IF over /\ reading.power > 0
                       THEN {[type |-> "OVERPOWER",
                              severity |-> GetSeverityLevel("OVERPOWER")]}
                       ELSE {}
  /\ pcDerive' = "read"
  /\ UNCHANGED <<reading, derived, persisted>>

\* ------------------------------------------------------------------------
\* RollingStatisticsAggregator: MQTT_Transmission_ESP32_nicer.ino
\* The buffers are declared extern and no file of the repository fills
\* them; Add is the writer the specification describes (a circular window
\* that overwrites its oldest slot). WindowCapacity stands in for the 300
\* slots. Wind speed in 0.1 m/s, power in W, mean and standard deviation in
\* 0.01 m/s, energy in mWh.
\* ------------------------------------------------------------------------

WindowCapacity == 3
MaxAdds == 5
StatWinds == {2, 5, 8}
\* A record whose power sensor failed carries power_w = -999.
SENTINEL_POWER_W == -999
StatPowers == {SENTINEL_POWER_W, 100}
SECONDS_PER_HOUR == 3600

Slots == 0 .. (WindowCapacity - 1)

RECURSIVE SumOver(_, _)
SumOver(f, n) == IF n = 0 THEN 0 ELSE f[n - 1] + SumOver(f, n - 1)

SetMin(S) == CHOOSE x \in S : \A y \in S : x <= y
SetMax(S) == CHOOSE x \in S : \A y \in S : x >= y

\* sqrt() to the unit below.
Sqrt(x) == CHOOSE r \in 0 .. x : r * r <= x /\ x < (r + 1) * (r + 1)

StatsInit ==
  /\ wind_speed_buffer = [i \in Slots |-> 0]
  /\ power_buffer = [i \in Slots |-> 0]
  /\ writeIndex = 0
  /\ stats = [sample_count |-> 0, wind_speed_min |-> 0, wind_speed_max |-> 0,
              wind_speed_mean |-> 0, wind_speed_std |-> 0, energy_wh |-> 0]
  /\ added = <<>>
  /\ statsFresh = FALSE
  /\ closesSinceAdd = 0

\* add(DerivedRecord): fill the next slot, overwriting the oldest once full.
Add ==
  /\ Len(added) < MaxAdds
  /\ \E w \in StatWinds, pw \in StatPowers :
       /\ wind_speed_buffer' = [wind_speed_buffer EXCEPT ![writeIndex] = w]
       /\ power_buffer' = [power_buffer EXCEPT ![writeIndex] = pw]
       /\ added' = Append(added, [wind |-> w, power |-> pw])
  /\ writeIndex' = (writeIndex + 1) % WindowCapacity
  /\ statsFresh' = FALSE
  /\ closesSinceAdd' = 0
  /\ UNCHANGED stats

\* s.sample_count = 300;  // or actual count
SampleCount(n) == WindowCapacity

\* s.energy_wh /= 3600.0f, on the sum of the power buffer (W, one sample a
\* second); the result in mWh.
EnergyWhPerMinute(sum) == (1000 * sum) \div 60
EnergyWh(sum) == (1000 * sum) \div SECONDS_PER_HOUR

\* The StatsSummary calculateRecentStats() builds from the buffers.
RecentStats ==
  LET n == SampleCount(Len(added))
      vals == {wind_speed_buffer[i] : i \in 0 .. (n - 1)}
      lo == SetMin(vals \cup {wind_speed_buffer[0]})
      hi == SetMax(vals \cup {wind_speed_buffer[0]})
      mean == (10 * SumOver(wind_speed_buffer, n)) \div n
      sq == [i \in Slots |-> (10 * wind_speed_buffer[i] - mean)
                               * (10 * wind_speed_buffer[i] - mean)]
  IN [sample_count |-> n,
      wind_speed_min |-> lo,
      wind_speed_max |-> hi,
      wind_speed_mean |-> mean,
      wind_speed_std |-> Sqrt(SumOver(sq, n) \div n),
      energy_wh |-> EnergyWh(SumOver(power_buffer, n))]

\* A calculateRecentStats that starts a new window after reporting (not
\* what the sketch does).
CalculateRecentStatsTumbling ==
  /\ stats' = RecentStats
  /\ statsFresh' = TRUE
  /\ closesSinceAdd' = IF closesSinceAdd < 2 THEN closesSinceAdd + 1 ELSE 2
  /\ wind_speed_buffer' = [i \in Slots |-> 0]
  /\ power_buffer' = [i \in Slots |-> 0]
  /\ writeIndex' = 0
  /\ UNCHANGED added

\* StatsSummary calculateRecentStats(): reads the buffers, writes none.
CalculateRecentStats ==
  /\ stats' = RecentStats
  /\ statsFresh' = TRUE
  /\ closesSinceAdd' = IF closesSinceAdd < 2 THEN closesSinceAdd + 1 ELSE 2
  /\ UNCHANGED <<wind_speed_buffer, power_buffer, writeIndex, added>>

\* ------------------------------------------------------------------------
\* Main loop and network of 08_complete_integration.ino
\* Time is millis() in ms. A handshake and a publish take no time of their
\* own (the most favourable case); the time that passes is that of the
\* delay() calls (blinkLED and the ADC reads of the sampling block included). The hourly time resync lies beyond the modelled time.
\* ------------------------------------------------------------------------

SAMPLE_INTERVAL_MS == 1000
MQTT_PUBLISH_INTERVAL_MS == 5000
WIFI_RECONNECT_INTERVAL_MS == 30000
SETUP_DELAY_MS == 2000
LOOP_DELAY_MS == 10
BLINK_DELAY_MS == 50
ADC_READS == 10
ADC_DELAY_MS == 5
MQTT_MAX_ATTEMPTS == 3
MQTT_RETRY_DELAY_MS == 1000
WIFI_MAX_ATTEMPTS == 20
WIFI_POLL_DELAY_MS == 500

\* Length of the modelled run of loop(), and the time up to which a run
\* that booted without Wi-Fi is followed (past the first periodic Wi-Fi
\* check); cap of the error counter.
MaxRunMs == 7000
MaxBootMs == 32000
MaxErrorCount == 2

MainInit ==
  /\ millisNow = 0
  /\ currentTime = 0
  /\ lastSampleTime = 0
  /\ lastMQTTPublish = 0
  /\ lastWiFiCheck = 0
  /\ wifiConnected = FALSE
  /\ mqttConnected = FALSE
  /\ mqttErrorCount = 0
  /\ wifiStatus = FALSE
  /\ clientConnected = FALSE
  /\ pcMain = "setup"
  /\ startTime = 0
  /\ handshakes = 0
  /\ blockedMs = 0
  /\ sampleGap = 0
  /\ lastPublish = "none"
  /\ samplesTaken = 0
  /\ serverSet = FALSE
  /\ connectUnset = FALSE
  /\ lastTakeMs = 0
  /\ rpmPeriod = 0
  /\ countWindow = 0

\* void initializeWiFi(): polls WiFi.status() every 500 ms, at most 20
\* times. `polls` is the number of delays before the status reads connected
\* (20 and `up` false: it never does). Yields <<wifiConnected, time spent>>.
InitializeWiFi(up, polls) ==
  IF up THEN <<TRUE, polls * WIFI_POLL_DELAY_MS>>
  ELSE <<wifiConnected, WIFI_MAX_ATTEMPTS * WIFI_POLL_DELAY_MS>>

\* void initializeTime(): polls the clock every 500 ms, at most 20 times
\* (`polls` delays). Yields the time spent.
InitializeTime(wifi, polls) == IF wifi THEN polls * WIFI_POLL_DELAY_MS ELSE 0

\* void reconnectMQTT(): up to 3 handshakes, delay(1000) after each failed
\* one. `okAt` is the handshake that succeeds (0: none does).
\* Yields <<mqttConnected, clientConnected, handshakes, time spent>>.
ReconnectMQTT(wifi, conn, okAt) ==
  IF ~wifi THEN <<mqttConnected, conn, 0, 0>>
  ELSE IF conn THEN <<FALSE, conn, 0, 0>>
  ELSE IF okAt > 0 THEN <<TRUE, TRUE, okAt, (okAt - 1) * MQTT_RETRY_DELAY_MS>>
  ELSE <<FALSE, FALSE, MQTT_MAX_ATTEMPTS, MQTT_MAX_ATTEMPTS * MQTT_RETRY_DELAY_MS>>

\* void initializeMQTT(): setServer, then reconnectMQTT(). setup() calls it
\* only if (wifiConnected). Yields whether the broker address is configured
\* afterwards.
InitializeMQTT(wifi) == wifi

\* void setup(): delay(2000), initializeHallSensor() (pulseCount counts from
\* here on), initializeWiFi() and, with Wi-Fi, initializeTime() and
\* initializeMQTT(); then the timers start from millis().
MainSetup ==
  /\ pcMain = "setup"
  /\ \E up \in BOOLEAN, polls \in {1, WIFI_MAX_ATTEMPTS},
        okAt \in 0 .. MQTT_MAX_ATTEMPTS :
       LET w == InitializeWiFi(up, polls)
           r == ReconnectMQTT(w[1], FALSE, okAt)
           t == SETUP_DELAY_MS + w[2] + InitializeTime(w[1], polls) + r[4]
       IN /\ wifiStatus' = up
          /\ wifiConnected' = w[1]
          /\ mqttConnected' = r[1]
          /\ clientConnected' = r[2]
          /\ handshakes' = r[3]
          /\ blockedMs' = r[4]
          /\ millisNow' = t
          /\ currentTime' = t
          /\ lastSampleTime' = t
          /\ lastMQTTPublish' = t
          /\ startTime' = t
          /\ serverSet' = InitializeMQTT(w[1])
  /\ lastTakeMs' = SETUP_DELAY_MS
  /\ pcMain' = "sample"
  /\ UNCHANGED <<connectUnset, rpmPeriod, countWindow>>
  /\ UNCHANGED <<lastWiFiCheck, mqttErrorCount, sampleGap, lastPublish,
                 samplesTaken>>

\* void publishToMQTT(): `ok` is the result of mqttClient.publish.
\* Yields <<what the call did, mqttErrorCount>>.
PublishToMQTT(conn, ok) ==
  IF ~conn THEN <<"offline", mqttErrorCount>>
  ELSE IF ok THEN <<"sent", 0>>
  ELSE <<"failed", IF mqttErrorCount < MaxErrorCount
                     THEN mqttErrorCount + 1 ELSE mqttErrorCount>>

\* readAllSensors(): millis() when pulseCount is read and zeroed, after
\* blinkLED() and the ten ADC reads of a tick that began at `start`.
TakeTime(start) == start + BLINK_DELAY_MS + ADC_READS * ADC_DELAY_MS

\* readAllSensors(): rpmPeriod = millis() - lastSampleTime, in ms.
RpmPeriod(now, last) == now - last

\* loop(), first part: currentTime = millis() and the sampling block
\* (sensors, SD log and flush are the other components' actions).
MainSample ==
  /\ pcMain = "sample"
  /\ currentTime' = millisNow
  /\ IF millisNow - lastSampleTime >= SAMPLE_INTERVAL_MS
       THEN /\ sampleGap' = millisNow - lastSampleTime
            /\ samplesTaken' = samplesTaken + 1
            /\ lastSampleTime' = millisNow
            /\ millisNow' = millisNow + BLINK_DELAY_MS + ADC_READS * ADC_DELAY_MS
            /\ rpmPeriod' = RpmPeriod(TakeTime(millisNow), lastSampleTime)
            /\ countWindow' = TakeTime(millisNow) - lastTakeMs
            /\ lastTakeMs' = TakeTime(millisNow)
            /\ IF mqttConnected
                    /\ millisNow - lastMQTTPublish >= MQTT_PUBLISH_INTERVAL_MS
                 THEN \E ok \in BOOLEAN :
                        /\ lastPublish' = PublishToMQTT(clientConnected, ok)[1]
                        /\ mqttErrorCount' = PublishToMQTT(clientConnected, ok)[2]
                        /\ lastMQTTPublish' = millisNow
                 ELSE UNCHANGED <<lastPublish, mqttErrorCount, lastMQTTPublish>>
       ELSE UNCHANGED <<sampleGap, lastSampleTime, lastPublish, mqttErrorCount,
                        lastMQTTPublish, millisNow, samplesTaken, rpmVars>>
  /\ pcMain' = "mqtt"
  /\ UNCHANGED <<lastWiFiCheck, wifiConnected, mqttConnected,
                 wifiStatus, clientConnected, startTime, handshakes, blockedMs,
                 serverSet, connectUnset>>

\* loop(), "Maintain MQTT connection": reconnectMQTT() when the client is
\* not connected. A client whose broker address was never set cannot
\* complete a handshake.
MainMaintainMQTT ==
  /\ pcMain = "mqtt"
  /\ IF wifiConnected /\ ~clientConnected
       THEN \E okAt \in 0 .. MQTT_MAX_ATTEMPTS :
              LET r == ReconnectMQTT(wifiConnected, clientConnected, okAt)
              IN /\ serverSet \/ okAt = 0
                 /\ mqttConnected' = r[1]
                 /\ clientConnected' = r[2]
                 /\ handshakes' = r[3]
                 /\ blockedMs' = r[4]
                 /\ millisNow' = millisNow + r[4]
                 /\ connectUnset' = (connectUnset \/ (r[3] > 0 /\ ~serverSet))
       ELSE UNCHANGED <<mqttConnected, clientConnected, handshakes, blockedMs,
                        millisNow, connectUnset>>
  /\ pcMain' = "wifi"
  /\ UNCHANGED <<serverSet, rpmVars>>
  /\ UNCHANGED <<currentTime, lastSampleTime, lastMQTTPublish, lastWiFiCheck,
                 wifiConnected, mqttErrorCount, wifiStatus, startTime,
                 sampleGap, lastPublish,
                 samplesTaken>>

\* loop(), "Periodic WiFi check" and the closing delay(10).
MainWiFiCheck ==
  /\ pcMain = "wifi"
  /\ IF currentTime - lastWiFiCheck >= WIFI_RECONNECT_INTERVAL_MS
       THEN /\ lastWiFiCheck' = currentTime
            /\ IF ~wifiStatus
                 THEN \E up \in BOOLEAN :
                        /\ wifiStatus' = up
                        /\ wifiConnected' = InitializeWiFi(up, 1)[1]
                        /\ millisNow' = millisNow + InitializeWiFi(up, 1)[2]
                                          + LOOP_DELAY_MS
                 ELSE /\ millisNow' = millisNow + LOOP_DELAY_MS
                      /\ UNCHANGED <<wifiStatus, wifiConnected>>
       ELSE /\ millisNow' = millisNow + LOOP_DELAY_MS
            /\ UNCHANGED <<lastWiFiCheck, wifiStatus, wifiConnected>>
  /\ \/ millisNow < startTime + MaxRunMs
     \/ ~serverSet /\ millisNow < MaxBootMs
  /\ pcMain' = "sample"
  /\ UNCHANGED <<serverSet, connectUnset, rpmVars>>
  /\ UNCHANGED <<currentTime, lastSampleTime, lastMQTTPublish, mqttConnected,
                 mqttErrorCount, clientConnected, startTime, handshakes,
                 blockedMs, sampleGap, lastPublish,
                 samplesTaken>>

\* A sampling tick is due at the top of loop().
SampleDue == pcMain = "sample" /\ millisNow - lastSampleTime >= SAMPLE_INTERVAL_MS

\* Environment: the broker connection drops; Wi-Fi goes away (taking the
\* broker connection with it). Faults are placed at sampling ticks.
MainConnectionLost ==
  /\ SampleDue
  /\ clientConnected
  /\ clientConnected' = FALSE
  /\ UNCHANGED <<millisNow, currentTime, lastSampleTime, lastMQTTPublish,
                 lastWiFiCheck, wifiConnected, mqttConnected, mqttErrorCount,
                 wifiStatus, pcMain, startTime, handshakes, blockedMs,
                 sampleGap, lastPublish,
                 samplesTaken, serverSet, connectUnset, rpmVars>>

MainWifiLost ==
  /\ SampleDue
  /\ wifiStatus
  /\ wifiStatus' = FALSE
  /\ clientConnected' = FALSE
  /\ UNCHANGED <<millisNow, currentTime, lastSampleTime, lastMQTTPublish,
                 lastWiFiCheck, wifiConnected, mqttConnected, mqttErrorCount,
                 pcMain, startTime, handshakes, blockedMs, sampleGap,
                 lastPublish,
                 samplesTaken, serverSet, connectUnset, rpmVars>>

\* ------------------------------------------------------------------------
\* Firmware state machine: complete_system.ino with the error handler and
\* the sensor module of the same guide (unnamed/part_001).
\* One action is one pass of loop() in the given state; a pass that changes
\* nothing (IDLE with no sample due, ERROR with nothing cleared) is a
\* stuttering step. case STATE_INIT of loop() is never entered: setup()
\* always leaves STATE_IDLE or STATE_ERROR. STATE_ERROR runs the guide's
\* error handler, handleError. The flags are kept as a set of names.
\* ------------------------------------------------------------------------

\* errorFlags = 0xFF: the eight flags of the #define list.
ALL_FLAGS == {"SD_INIT", "SD_WRITE", "ANEMOMETER", "POWER_SENSOR",
              "ENV_SENSOR", "WIFI", "MQTT", "LOW_MEMORY"}

FsmInit ==
  /\ currentState = "INIT"
  /\ errorFlags = {}
  /\ sampleReady = FALSE
  /\ timerOn = FALSE
  /\ pcFsm = "setup"
  /\ hw = [sd |-> TRUE, ina |-> TRUE, bme |-> TRUE, anem |-> TRUE,
           mqtt |-> TRUE]
  /\ lastCleared = {}

\* bool runSelfTest(): SD card, INA219 and BME280 must answer (the heap is
\* taken to be large enough; Wi-Fi does not fail the test).
RunSelfTest == hw.sd /\ hw.ina /\ hw.bme

\* bool readAllSensors(SensorData* data): false when the power sensor or
\* the environment sensor does not read; the anemometer is not checked.
ReadAllSensorsOk == hw.ina /\ hw.bme

\* setup() of complete_system.ino
FsmSetup ==
  /\ pcFsm = "setup"
  /\ pcFsm' = "loop"
  /\ IF ~RunSelfTest
       THEN /\ currentState' = "ERROR"
            /\ errorFlags' = ALL_FLAGS
            /\ UNCHANGED timerOn
       ELSE /\ errorFlags' = (IF ~(hw.ina /\ hw.bme) THEN {"SENSOR_INIT"} ELSE {})
                             \cup (IF ~hw.sd THEN {"SD_INIT"} ELSE {})
                             \cup (IF ~hw.mqtt THEN {"MQTT_INIT"} ELSE {})
            /\ timerOn' = TRUE
            /\ currentState' = IF errorFlags' = {} THEN "IDLE" ELSE "ERROR"
  /\ UNCHANGED <<sampleReady, hw, lastCleared>>

\* void IRAM_ATTR onSampleTimer(): the 1 Hz hardware timer.
OnSampleTimer ==
  /\ pcFsm = "loop"
  /\ timerOn
  /\ sampleReady' = TRUE
  /\ UNCHANGED <<currentState, errorFlags, timerOn, pcFsm, hw, lastCleared>>

\* case STATE_IDLE
StateIdle ==
  /\ pcFsm = "loop"
  /\ currentState = "IDLE"
  /\ sampleReady
  /\ sampleReady' = FALSE
  /\ currentState' = "ACQUIRE"
  /\ UNCHANGED <<errorFlags, timerOn, pcFsm, hw, lastCleared>>

\* case STATE_ACQUIRE of complete_system.ino
StateAcquire ==
  /\ pcFsm = "loop"
  /\ currentState = "ACQUIRE"
  /\ IF ReadAllSensorsOk
       THEN /\ currentState' = "PROCESS"
            /\ UNCHANGED errorFlags
       ELSE /\ errorFlags' = errorFlags \cup {"SENSOR_READ"}
            /\ currentState' = "ERROR"
  /\ UNCHANGED <<sampleReady, timerOn, pcFsm, hw, lastCleared>>

\* void handleAcquire(): the state handler of the guide's first pattern, the
\* other published form of the ACQUIRE state.
HandleAcquire ==
  /\ pcFsm = "loop"
  /\ currentState = "ACQUIRE"
  /\ errorFlags' = errorFlags
                     \cup (IF ~hw.anem THEN {"ANEMOMETER"} ELSE {})
                     \cup (IF ~hw.ina THEN {"POWER_SENSOR"} ELSE {})
                     \cup (IF ~hw.bme THEN {"ENV_SENSOR"} ELSE {})
  /\ currentState' = IF hw.anem /\ hw.ina /\ hw.bme THEN "PROCESS" ELSE "ERROR"
  /\ UNCHANGED <<sampleReady, timerOn, pcFsm, hw, lastCleared>>

\* The state that follows STATE_PROCESS.
AfterProcessSkipsLog == "TRANSMIT"
AfterProcess == "LOG"

\* case STATE_PROCESS
StateProcess ==
  /\ pcFsm = "loop"
  /\ currentState = "PROCESS"
  /\ currentState' = AfterProcess
  /\ UNCHANGED <<errorFlags, sampleReady, timerOn, pcFsm, hw, lastCleared>>

\* case STATE_LOG: logData() succeeds when the card works; shouldTransmit()
\* is not part of the repository and is left open.
StateLog ==
  /\ pcFsm = "loop"
  /\ currentState = "LOG"
  /\ IF hw.sd
       THEN /\ \E shouldTransmit \in BOOLEAN :
                 currentState' = IF shouldTransmit THEN "TRANSMIT" ELSE "IDLE"
            /\ UNCHANGED errorFlags
       ELSE /\ errorFlags' = errorFlags \cup {"SD_WRITE"}
            /\ currentState' = "ERROR"
  /\ UNCHANGED <<sampleReady, timerOn, pcFsm, hw, lastCleared>>

\* case STATE_TRANSMIT
StateTransmit ==
  /\ pcFsm = "loop"
  /\ currentState = "TRANSMIT"
  /\ currentState' = "IDLE"
  /\ UNCHANGED <<errorFlags, sampleReady, timerOn, pcFsm, hw, lastCleared>>

\* handleError: "if (errorFlags & FLAG) { if (reinit()) errorFlags &= ~FLAG; }"
ClearAlways(flags, flag, ok) == flags \ {flag}
ClearIfRecovered(flags, flag, ok) ==
  IF flag \in flags /\ ok THEN flags \ {flag} ELSE flags

\* The flags handleError leaves: SD.begin() and ina219.begin() are retried.
AfterRecovery(flags) ==
  ClearIfRecovered(ClearIfRecovered(flags, "SD_INIT", hw.sd),
                   "POWER_SENSOR", hw.ina)

\* case STATE_ERROR: void handleError(). ERROR_LOW_MEMORY restarts the
\* chip: every global is initialised again and setup() runs.
HandleError ==
  /\ pcFsm = "loop"
  /\ currentState = "ERROR"
  /\ IF "LOW_MEMORY" \in AfterRecovery(errorFlags)
       THEN /\ errorFlags' = {}
            /\ lastCleared' = errorFlags
            /\ currentState' = "INIT"
            /\ sampleReady' = FALSE
            /\ timerOn' = FALSE
            /\ pcFsm' = "setup"
       ELSE /\ errorFlags' = AfterRecovery(errorFlags)
            /\ lastCleared' = IF errorFlags' # errorFlags
                                THEN errorFlags \ errorFlags'
                                ELSE lastCleared
            /\ currentState' = IF errorFlags' = {} THEN "IDLE" ELSE "ERROR"
            /\ UNCHANGED <<sampleReady, timerOn, pcFsm>>
  /\ UNCHANGED hw

\* Environment: one subsystem starts or stops working.
HwChange ==
  /\ \E k \in DOMAIN hw : hw' = [hw EXCEPT ![k] = ~hw[k]]
  /\ UNCHANGED <<currentState, errorFlags, sampleReady, timerOn, pcFsm,
                 lastCleared>>

\* ------------------------------------------------------------------------
\* Elapsed-time test on the wrapping clock: the millis-based timing of
\* unnamed/part_001, the test every interval check of the sketches uses
\* (08_complete_integration.ino loop(), transmitAggregatedData).
\* millis() is an unsigned long that wraps at 2^32; MillisWrap stands in
\* for 2^32. Time passes in steps between two passes of loop().
\* ------------------------------------------------------------------------

LOG_INTERVAL == 1000

\* Stand-in for 2^32, the time steps between passes, and the horizon.
MillisWrap == 65536
TimerSteps == {500, 1000, 30000, 65700}
MaxTrueMs == 140000

\* unsigned long currentTime = millis();
Millis == trueMs % MillisWrap

\* Unsigned subtraction of two clock values.
MillisSub(a, b) == (a - b) % MillisWrap

\* if (currentTime - lastLogTime >= LOG_INTERVAL), with the comparison of
\* absolute times as its variant.
ElapsedDueAbsolute(now, last) == now >= last + LOG_INTERVAL
ElapsedDue(now, last) == MillisSub(now, last) >= LOG_INTERVAL

TimerInit ==
  /\ trueMs = 0
  /\ lastLogTime = 0
  /\ lastLogTrue = 0
  /\ pcTimer = "wait"
  /\ timerFired = FALSE
  /\ lastElapsed = 0
  /\ lastWrapped = FALSE

\* Environment: time passes until loop() runs again.
TimerWait ==
  /\ pcTimer = "wait"
  /\ \E d \in TimerSteps :
       /\ trueMs + d <= MaxTrueMs
       /\ trueMs' = trueMs + d
  /\ pcTimer' = "check"
  /\ UNCHANGED <<lastLogTime, lastLogTrue, timerFired, lastElapsed, lastWrapped>>

\* void loop(): the interval test and, when it fires, lastLogTime = currentTime.
TimerLoop ==
  /\ pcTimer = "check"
  /\ timerFired' = ElapsedDue(Millis, lastLogTime)
  /\ lastElapsed' = trueMs - lastLogTrue
  /\ lastWrapped' = (trueMs \div MillisWrap # lastLogTrue \div MillisWrap)
  /\ IF ElapsedDue(Millis, lastLogTime)
       THEN /\ lastLogTime' = Millis
            /\ lastLogTrue' = trueMs
       ELSE UNCHANGED <<lastLogTime, lastLogTrue>>
  /\ pcTimer' = "wait"
  /\ UNCHANGED trueMs

\* ------------------------------------------------------------------------
\* calculateCp of calculations.cpp and testCalculateCp (unnamed/part_001).
\* Power in mW, wind speed in 0.1 m/s, air density in g/m^3, swept area in
\* 0.1 m^2, wind power in 10 uW, Cp in 1/10000. Air density and swept area
\* are positive: the wind power is not zero where the division is made.
\* ------------------------------------------------------------------------

CpPowers == {-100000, 0, 100000, 250000, 331000, 332000, 1000000}
CpWinds == {0, 4, 5, 30, 80}
CpDensities == {1200, 1225}
CpAreas == {18, 20}

\* if (windSpeed < 0.5) return 0.0;
CP_MIN_WIND_DMS == 5

\* 0.5 * airDensity * sweptArea * pow(windSpeed, 3)
CpWindPower(rho, area, wind) ==
  LET k == (rho * area) \div 2
      v3 == wind * wind * wind
  IN k * (v3 \div 100) + (k * (v3 % 100)) \div 100

\* float calculateCp(power, windSpeed, airDensity, sweptArea), with the
\* sentinel of sketch 08 in place of 0.0 for a rejected ratio as its variant.
CalculateCpSentinel(power, wind, rho, area) ==
  IF wind < CP_MIN_WIND_DMS THEN 0
  ELSE IF ExceedsSanityLimit(power, CpWindPower(rho, area, wind))
    THEN SENTINEL_CP
  ELSE IF power < 0 THEN 0
  ELSE Ratio(power, CpWindPower(rho, area, wind))
CalculateCp(power, wind, rho, area) ==
  IF wind < CP_MIN_WIND_DMS THEN 0
  ELSE IF ExceedsSanityLimit(power, CpWindPower(rho, area, wind)) THEN 0
  ELSE IF power < 0 THEN 0
  ELSE Ratio(power, CpWindPower(rho, area, wind))

\* The calls of testCalculateCp and its assertions.
TestArgs(i) ==
  CASE i = 1 -> [power |-> 250000, wind |-> 80, rho |-> 1200, area |-> 18]
    [] i = 2 -> [power |-> 100000, wind |-> 0, rho |-> 1200, area |-> 18]
    [] i = 3 -> [power |-> 1000000, wind |-> 30, rho |-> 1200, area |-> 18]
TestAssertion(i, cp) ==
  CASE i = 1 -> cp > 2500 /\ cp < 4000
    [] i = 2 -> cp = 0
    [] i = 3 -> cp = 0

CpInit ==
  /\ cpArgs = [power |-> 0, wind |-> 0, rho |-> 1200, area |-> 18]
  /\ cpResult = 0
  /\ cpTest = 0
  /\ cpAssert = TRUE

\* A call of calculateCp from the firmware, on any reading.
CallCalculateCp ==
  /\ \E pw \in CpPowers, w \in CpWinds, rho \in CpDensities, a \in CpAreas :
       /\ cpArgs' = [power |-> pw, wind |-> w, rho |-> rho, area |-> a]
       /\ cpResult' = CalculateCp(pw, w, rho, a)
  /\ cpTest' = 0
  /\ cpAssert' = TRUE

\* void testCalculateCp(): one of its three tests.
TestCalculateCp ==
  /\ \E i \in 1 .. 3 :
       LET a == TestArgs(i)
           cp == CalculateCp(a.power, a.wind, a.rho, a.area)
       IN /\ cpArgs' = a
          /\ cpResult' = cp
          /\ cpTest' = i
          /\ cpAssert' = TestAssertion(i, cp)

\* ------------------------------------------------------------------------
\* MQTT publisher of example 07: 07_mqtt_publish.ino
\* ------------------------------------------------------------------------

PUBLISH_INTERVAL_MS == 5000
MAX_RECONNECT_ATTEMPTS == 5
CONNECT_RETRY_DELAY_MS == 2000
PUB_LOOP_DELAY_MS == 100

\* millis() - lastPublishTime after d more ms; the publish test only asks
\* whether it has reached PUBLISH_INTERVAL_MS.
Elapse(since, d) ==
  IF since + d >= PUBLISH_INTERVAL_MS THEN PUBLISH_INTERVAL_MS ELSE since + d

PubInit ==
  /\ brokerUp = TRUE
  /\ pubConnected = FALSE
  /\ reconnectAttempts = 0
  /\ pcPub = "setup"
  /\ connectFrom = "setup"
  /\ sincePublish = 0
  /\ lastPass = "none"

\* void setup(): connectWiFi(), setServer, then connectMQTT().
PubSetup ==
  /\ pcPub = "setup"
  /\ pcPub' = "connect"
  /\ connectFrom' = "setup"
  /\ UNCHANGED <<brokerUp, pubConnected, reconnectAttempts, sincePublish,
                 lastPass>>

\* loop(): if (!mqttClient.connected()) connectMQTT();
PubLoopTop ==
  /\ pcPub = "loop"
  /\ pcPub' = IF pubConnected THEN "publish" ELSE "connect"
  /\ connectFrom' = "loop"
  /\ UNCHANGED <<brokerUp, pubConnected, reconnectAttempts, sincePublish,
                 lastPass>>

\* void connectMQTT(): one test of the while condition and, if it holds, one
\* connection attempt (followed by delay(2000) when it fails); otherwise the
\* return to the caller.
ConnectMQTTStep ==
  /\ pcPub = "connect"
  /\ IF ~pubConnected /\ reconnectAttempts < MAX_RECONNECT_ATTEMPTS
       THEN /\ IF brokerUp
                 THEN /\ pubConnected' = TRUE
                      /\ reconnectAttempts' = 0
                      /\ UNCHANGED sincePublish
                 ELSE /\ reconnectAttempts' = reconnectAttempts + 1
                      /\ sincePublish' = Elapse(sincePublish, CONNECT_RETRY_DELAY_MS)
                      /\ UNCHANGED pubConnected
            /\ UNCHANGED pcPub
       ELSE /\ pcPub' = IF connectFrom = "setup" THEN "loop" ELSE "publish"
            /\ UNCHANGED <<pubConnected, reconnectAttempts, sincePublish>>
  /\ UNCHANGED <<brokerUp, connectFrom, lastPass>>

\* bool publishSensorData(): false without a connection.
PublishSensorData(conn) == conn

\* loop(): the periodic publish and delay(100).
PubLoopRest ==
  /\ pcPub = "publish"
  /\ pcPub' = "loop"
  /\ IF sincePublish >= PUBLISH_INTERVAL_MS
       THEN /\ lastPass' = IF PublishSensorData(pubConnected)
                             THEN "published" ELSE "failed"
            /\ sincePublish' = Elapse(0, PUB_LOOP_DELAY_MS)
       ELSE /\ lastPass' = "idle"
            /\ sincePublish' = Elapse(sincePublish, PUB_LOOP_DELAY_MS)
  /\ UNCHANGED <<brokerUp, pubConnected, reconnectAttempts, connectFrom>>

\* Environment: the broker goes away (closing the connection) or comes back.
BrokerChange ==
  /\ brokerUp' = ~brokerUp
  /\ pubConnected' = IF brokerUp THEN FALSE ELSE pubConnected
  /\ UNCHANGED <<reconnectAttempts, pcPub, connectFrom, sincePublish, lastPass>>

\* ------------------------------------------------------------------------
\* Specifications
\* ------------------------------------------------------------------------

Init ==
  /\ PulseInit /\ TxInit /\ LogInit /\ DeriveInit /\ StatsInit /\ MainInit
  /\ FsmInit /\ TimerInit /\ CpInit /\ PubInit

notPulse == <<txVars, logVars, deriveVars, statsVars, mainVars, fsmVars,
  timerVars,
  cpVars,
  pubVars>>
notTx == <<pulseVars, logVars, deriveVars, statsVars, mainVars, fsmVars,
  timerVars,
  cpVars,
  pubVars>>
notLog == <<pulseVars, txVars, deriveVars, statsVars, mainVars, fsmVars,
  timerVars,
  cpVars,
  pubVars>>
notDerive == <<pulseVars, txVars, logVars, statsVars, mainVars, fsmVars,
  timerVars,
  cpVars,
  pubVars>>
notStats == <<pulseVars, txVars, logVars, deriveVars, mainVars, fsmVars,
  timerVars,
  cpVars,
  pubVars>>
notMain == <<pulseVars, txVars, logVars, deriveVars, statsVars, fsmVars,
  timerVars,
  cpVars,
  pubVars>>
notFsm == <<pulseVars, txVars, logVars, deriveVars, statsVars, mainVars,
  timerVars,
  cpVars,
  pubVars>>
notTimer == <<pulseVars, txVars, logVars, deriveVars, statsVars, mainVars, fsmVars,
  cpVars,
  pubVars>>
notCp == <<pulseVars, txVars, logVars, deriveVars, statsVars, mainVars, fsmVars, timerVars,
  pubVars>>
notPub == <<pulseVars, txVars, logVars, deriveVars, statsVars, mainVars, fsmVars, timerVars, cpVars>>

NextPulse ==
  \/ AdvanceTime /\ UNCHANGED notPulse
  \/ HallEdge /\ UNCHANGED notPulse
  \/ HallSensorISR /\ UNCHANGED notPulse
  \/ NoInterrupts /\ UNCHANGED notPulse
  \/ ReadPulseCount /\ UNCHANGED notPulse
  \/ ZeroPulseCount /\ UNCHANGED notPulse
  \/ Interrupts /\ UNCHANGED notPulse

NextTx ==
  \/ TxSetup /\ UNCHANGED notTx
  \/ MaintainMQTTConnection /\ UNCHANGED notTx
  \/ TransmitAggregatedData /\ UNCHANGED notTx
  \/ AlertCheck /\ UNCHANGED notTx
  \/ ConnectionLost /\ UNCHANGED notTx
  \/ WifiChange /\ UNCHANGED notTx
  \/ TxTick /\ UNCHANGED notTx

NextLog ==
  \/ InitializeSDCard /\ UNCHANGED notLog
  \/ SetupDataFile /\ UNCHANGED notLog
  \/ SampleTick /\ UNCHANGED notLog
  \/ Reboot /\ UNCHANGED notLog
  \/ SdFaultChange /\ UNCHANGED notLog

NextDerive ==
  \/ ReadAllSensors /\ UNCHANGED notDerive
  \/ CalculateDerivedValues /\ UNCHANGED notDerive
  \/ LogDerived /\ UNCHANGED notDerive
  \/ OverpowerAlert /\ UNCHANGED notDerive

NextStats ==
  \/ Add /\ UNCHANGED notStats
  \/ CalculateRecentStats /\ UNCHANGED notStats

NextMain ==
  \/ MainSetup /\ UNCHANGED notMain
  \/ MainSample /\ UNCHANGED notMain
  \/ MainMaintainMQTT /\ UNCHANGED notMain
  \/ MainWiFiCheck /\ UNCHANGED notMain
  \/ MainConnectionLost /\ UNCHANGED notMain
  \/ MainWifiLost /\ UNCHANGED notMain

\* One pass of loop() (or setup()) of the state machine.
FsmLoop ==
  \/ FsmSetup
  \/ StateIdle
  \/ StateAcquire
  \/ HandleAcquire
  \/ StateProcess
  \/ StateLog
  \/ StateTransmit
  \/ HandleError

NextFsm ==
  \/ FsmSetup /\ UNCHANGED notFsm
  \/ OnSampleTimer /\ UNCHANGED notFsm
  \/ StateIdle /\ UNCHANGED notFsm
  \/ StateAcquire /\ UNCHANGED notFsm
  \/ HandleAcquire /\ UNCHANGED notFsm
  \/ StateProcess /\ UNCHANGED notFsm
  \/ StateLog /\ UNCHANGED notFsm
  \/ StateTransmit /\ UNCHANGED notFsm
  \/ HandleError /\ UNCHANGED notFsm
  \/ HwChange /\ UNCHANGED notFsm

NextTimer ==
  \/ TimerWait /\ UNCHANGED notTimer
  \/ TimerLoop /\ UNCHANGED notTimer

NextCp ==
  \/ CallCalculateCp /\ UNCHANGED notCp
  \/ TestCalculateCp /\ UNCHANGED notCp

NextPub ==
  \/ PubSetup /\ UNCHANGED notPub
  \/ PubLoopTop /\ UNCHANGED notPub
  \/ ConnectMQTTStep /\ UNCHANGED notPub
  \/ PubLoopRest /\ UNCHANGED notPub
  \/ BrokerChange /\ UNCHANGED notPub

Next ==
  NextPulse \/ NextTx \/ NextLog \/ NextDerive \/ NextStats \/ NextMain
    \/ NextFsm \/ NextTimer \/ NextCp \/ NextPub

SpecPulse == Init /\ [][NextPulse]_vars
SpecTx == Init /\ [][NextTx]_vars
SpecLog == Init /\ [][NextLog]_vars
SpecDerive == Init /\ [][NextDerive]_vars
SpecStats == Init /\ [][NextStats]_vars
SpecMain == Init /\ [][NextMain]_vars
SpecFsm == Init /\ [][NextFsm]_vars

\* The state machine under its scheduling: the Arduino core calls loop()
\* for ever, and the hardware timer fires every second once it is set up.
SpecFsmLive ==
  /\ Init /\ [][NextFsm]_vars
  /\ WF_vars(FsmLoop /\ UNCHANGED notFsm)
  /\ WF_vars(OnSampleTimer /\ UNCHANGED notFsm)

SpecTimer == Init /\ [][NextTimer]_vars

SpecCp == Init /\ [][NextCp]_vars

SpecPub == Init /\ [][NextPub]_vars

\* Example 07 under its scheduling: setup() runs, then the Arduino core
\* calls loop() for ever; the broker is not constrained.
SpecPubLive ==
  /\ Init /\ [][NextPub]_vars
  /\ WF_vars(PubSetup /\ UNCHANGED notPub)
  /\ WF_vars(PubLoopTop /\ UNCHANGED notPub)
  /\ WF_vars(ConnectMQTTStep /\ UNCHANGED notPub)
  /\ WF_vars(PubLoopRest /\ UNCHANGED notPub)

Spec == Init /\ [][Next]_vars

\* ------------------------------------------------------------------------
\* PulseCounter claims (SpecPulse)
\* ------------------------------------------------------------------------

\* The value the exchange holds between zeroing the counter and returning.
InHand == IF pcTake = "zeroed" THEN pulses ELSE 0

\* C1: under every interleaving of the edge interrupt with the main loop's
\* read-and-zero exchange no accepted edge is lost or counted twice: the
\* values handed out so far (the one in hand included) plus the counter
\* equal the number of edges the ISR accepted.
C1_NoEdgeLostOrDoubled ==
  takenTotal + InHand + pulseCount = acceptedEdges

\* C1 witness: an edge arrives in the middle of an exchange (after the read,
\* before the zeroing) that is about to hand out a non-zero count, after an
\* earlier exchange handed out another.
C1_EdgeDuringExchange ==
  /\ pcTake = "read"
  /\ pendingEdge
  /\ pulses >= 1
  /\ takenTotal >= 1

\* True time since the last accepted edge (since clock zero before the first).
SinceLastAccepted == nowUs - lastAcceptTime

\* C10 as stated: once an edge has been accepted, the ISR increments the
\* counter iff the time since the last accepted edge exceeds the debounce
\* window; a rejected edge changes neither the counter nor the
\* last-accepted-edge time.
C10_DebounceOnTrueTime ==
  [][(HallSensorISR /\ acceptedEdges >= 1) =>
       /\ (pulseCount' = pulseCount + 1) <=> (SinceLastAccepted > DEBOUNCE_DELAY_US)
       /\ pulseCount' \in {pulseCount, pulseCount + 1}
       /\ (pulseCount' = pulseCount) => (lastPulseTime_us' = lastPulseTime_us)]_vars

\* C10 amended: the same for every edge, with the time since the last
\* accepted edge (since the clock's zero before the first) taken modulo the
\* width of the micros() clock.
C10_DebounceOnClockTime ==
  [][HallSensorISR =>
       /\ (pulseCount' = pulseCount + 1)
            <=> (SinceLastAccepted % MicrosWrap > DEBOUNCE_DELAY_US)
       /\ pulseCount' \in {pulseCount, pulseCount + 1}
       /\ (pulseCount' = pulseCount) => (lastPulseTime_us' = lastPulseTime_us)]_vars

\* C10 witness: after at least two accepted edges and a wrap of the clock
\* the ISR has just rejected a bounce inside the debounce window.
C10_BounceRejected ==
  /\ lastIsr = "rejected"
  /\ acceptedEdges >= 2
  /\ nowUs >= MicrosWrap
  /\ SinceLastAccepted <= DEBOUNCE_DELAY_US

\* ------------------------------------------------------------------------
\* TelemetryPublisher claims (SpecTx)
\* ------------------------------------------------------------------------

\* C2: between two consecutive resets of lastTxMillis at most maxRetry sends
\* are made on the data topic, broker disconnects and reconnects included.
C2_BoundedSendsPerInterval ==
  intervalSends <= cfg_maxRetry

\* C9: every sendAlert call hands the alert to the local event log exactly
\* once, whether the publisher is offline, the publish succeeds or fails.
C9_AlertLoggedOnce ==
  alertPaths # {} => alertLogs = 1

\* C9 witness: sendAlert has run on each of its three paths.
C9_AllAlertPathsTaken ==
  alertPaths = {"offline", "sent", "failed"}

\* The interval at which the troubleshooting guide's loop retries the
\* connection.
RECONNECT_INTERVAL_MS == 5000

\* C12: while disconnected, two consecutive connection attempts are never
\* closer together than the reconnect interval.
C12_ReconnectCapped ==
  attemptGap < 0 \/ attemptGap >= RECONNECT_INTERVAL_MS

\* A step that is one transmitAggregatedData() call.
TransmitCall == pcLoop = "transmit" /\ pcLoop' = "alert"

\* C14: a transmitAggregatedData call publishes on the data topic only if
\* the client is connected when it is called, and at most once.
C14_SendOnlyWhenConnected ==
  [][TransmitCall =>
       /\ lastTx'.sends <= 1
       /\ lastTx'.sends = 1 => mqttUp]_vars

\* C14 witness: a call made while disconnected with a transmission due has
\* returned without sending.
C14_DueButOffline ==
  /\ pcLoop = "alert"
  /\ lastTx.path = "offline"
  /\ lastTx.sends = 0
  /\ nowMs - lastTxMillis >= cfg_intervalMs

\* C15 as stated: a data send is made only from the connected state, and
\* after a transport error (a failed publish) the publisher is disconnected.
C15_ErrorDisconnects ==
  [][TransmitCall =>
       /\ lastTx'.sends = 1 => mqttUp
       /\ lastTx'.path \in {"retry", "abandoned"} => ~mqttUp']_vars

\* C15 amended: a data send is made only from the connected state; the
\* publisher becomes connected only by a successful handshake of
\* connectMQTT; a transmitAggregatedData call, failed publish included,
\* leaves the connection state as it is.
C15_ConnectionFollowsTransport ==
  [][/\ (TransmitCall /\ lastTx'.sends = 1) => mqttUp
     /\ TransmitCall => mqttUp' = mqttUp
     /\ (~mqttUp /\ mqttUp') =>
          /\ pcLoop \in {"setup", "maintain"}
          /\ pcLoop' # pcLoop
          /\ lastHandshake' = "ok"]_vars

\* C15 witness: two publishes in a row have failed and the publisher is
\* still connected, on its one successful handshake.
C15_StillConnectedAfterFailures ==
  /\ pcLoop = "alert"
  /\ lastTx.path = "retry"
  /\ txRetryCount = 2
  /\ mqttUp
  /\ lastHandshake = "ok"

\* C16: a failed send either counts a retry below maxRetry or, when the
\* counter reaches maxRetry, abandons the interval (counter back to 0,
\* lastTxMillis set to now); lastTxMillis is set by nothing else than a
\* send, and no send is made until a full interval has passed since it.
C16_AbandonResetsInterval ==
  [][/\ (TransmitCall /\ lastTx'.path = "abandoned") =>
          (txRetryCount' = 0 /\ lastTxMillis' = nowMs)
     /\ (TransmitCall /\ lastTx'.path = "retry") =>
          /\ txRetryCount' = txRetryCount + 1
          /\ txRetryCount' < cfg_maxRetry
          /\ lastTxMillis' = lastTxMillis
     /\ (TransmitCall /\ lastTx'.sends = 1) =>
          nowMs - lastTxMillis >= cfg_intervalMs
     /\ (lastTxMillis' # lastTxMillis) =>
          (TransmitCall /\ lastTx'.sends = 1 /\ lastTxMillis' = nowMs)]_vars

\* C16 witness: the third failed send of an interval has just abandoned it,
\* on a connection that was never re-made.
C16_IntervalAbandoned ==
  /\ pcLoop = "alert"
  /\ lastTx.path = "abandoned"
  /\ intervalSends = cfg_maxRetry
  /\ txRetryCount = 0
  /\ lastTxMillis = nowMs
  /\ attemptGap < 0

\* ------------------------------------------------------------------------
\* LocalPersistenceLog claims (SpecLog)
\* ------------------------------------------------------------------------

\* C3: the log enters the degraded state exactly at the 10th consecutive
\* write failure (not before it, not later), and a successful write resets
\* the failure counter to zero.
C3_DegradedAtTenthFailure ==
  /\ consecFails >= MAX_CONSECUTIVE_FAILURES => (degraded /\ ~sdCardAvailable)
  /\ degraded => consecFails >= MAX_CONSECUTIVE_FAILURES
  /\ lastTick = "written" => sdErrorCount = 0

\* C3 as the code has it: the log is degraded exactly from the 11th
\* consecutive write failure on (the counter has passed 10), never before
\* it and never later, and a successful write resets the counter to zero.
C3_DegradedAtEleventhFailure ==
  /\ consecFails > MAX_CONSECUTIVE_FAILURES => (degraded /\ ~sdCardAvailable)
  /\ degraded => consecFails > MAX_CONSECUTIVE_FAILURES
  /\ sdErrorCount <= MAX_CONSECUTIVE_FAILURES + 1
  /\ lastTick = "written" => sdErrorCount = 0

\* C3 witness: the 11th consecutive failure has just put the log in the
\* degraded state.
C3_EleventhFailureDegrades ==
  /\ lastTick = "failed"
  /\ consecFails = MAX_CONSECUTIVE_FAILURES + 1
  /\ degraded
  /\ ~sdCardAvailable

\* C4: once degraded, write attempts go on and the next tick on which the
\* card works writes its record and clears the degraded state.
C4_DegradedClearsOnSuccess ==
  [][(SampleTick /\ degraded /\ sdOk) =>
       /\ ~degraded'
       /\ sdCardAvailable'
       /\ fileLines' = Append(fileLines, "R")]_vars

\* C5: whatever sequence of boots, failed opens and appends has run, the
\* data file holds exactly one header line and it precedes every record.
C5_ExactlyOneHeaderFirst ==
  fileExists =>
    /\ Len(fileLines) >= 1
    /\ fileLines[1] = "H"
    /\ \A i \in 2..Len(fileLines) : fileLines[i] = "R"

\* Records on the card.
DurableRecords == Len(SelectSeq(fileLines, LAMBDA l : l = "R"))

\* C17: every record appended is on the card when its sampling tick
\* returns, so that between ticks no appended record waits to become
\* durable: none is older than the flush interval, their number is within
\* every buffer bound, and a power failure loses no record appended in an
\* earlier tick.
C17_AppendedIsDurable ==
  /\ Len(fileBuffer) = 0
  /\ lastTick = "written" => (DurableRecords >= 1 /\ fileLines[Len(fileLines)] = "R")

\* C17 witness: power has failed after two records were appended and the
\* card still holds both.
C17_RecordsSurvivePowerFailure ==
  /\ pcBoot = "initSD"
  /\ produced >= 2
  /\ DurableRecords >= 2

\* The records the program holds in memory for a later write: it has no
\* such buffer (a record not written in its tick is overwritten by the
\* next readAllSensors).
RamBuffer == <<>>

\* C18: in the degraded state each new record is retained in the in-memory
\* buffer.
C18_DegradedRecordsBuffered ==
  (degraded /\ lastTick = "skipped") => Len(RamBuffer) >= 1

\* C19: every record a sampling tick produces either becomes durable or
\* buffered, or is counted in a drop counter that never decreases (the
\* program's one counter being sdErrorCount), which keeps produced =
\* durable + buffered + counted drops.
C19_NoSilentLoss ==
  [][(produced' = produced + 1) =>
       \/ /\ DurableRecords' + Len(RamBuffer) = DurableRecords + Len(RamBuffer) + 1
          /\ sdErrorCount' = sdErrorCount
       \/ /\ DurableRecords' = DurableRecords
          /\ sdErrorCount' = sdErrorCount + 1]_vars

\* ------------------------------------------------------------------------
\* DerivedQuantityCalculator claims (SpecDerive)
\* ------------------------------------------------------------------------

\* The Betz limit, 0.593, and the minimum wind threshold, 0.5 m/s, in the
\* model's units.
BETZ_LIMIT_E4 == 5930
MIN_WIND_THRESHOLD_DMS == 5

\* calculateDerivedValues has run on the reading in hand.
DerivedIsCurrent == pcDerive = "read" /\ derived.rho > 0

\* C6: every derived record whose Cp is valid (not the sentinel) has
\* 0 <= Cp <= 0.593; a Cp computed above 0.593 is never stored as valid.
C6_ValidCpWithinBetz ==
  (DerivedIsCurrent /\ derived.cp # SENTINEL_CP) =>
     (0 <= derived.cp /\ derived.cp <= BETZ_LIMIT_E4)

\* C7: for every reading with wind speed below 0.5 m/s, whatever the rotor
\* speed and the power, the derived record has lambda = 0 and Cp = 0 (both
\* valid, not the sentinel).
C7_DegenerateBelowThreshold ==
  (DerivedIsCurrent /\ reading.wind < MIN_WIND_THRESHOLD_DMS) =>
     (derived.lambda = 0 /\ derived.cp = 0)

\* The Cp the reading gives before any validation, where one is computed.
RawCp == Ratio(reading.power, WindPower(derived.rho, reading.wind))

\* C20: whenever the computed Cp exceeds the Betz limit, both Cp and lambda
\* of the record are the invalid sentinel.
C20_BetzViolationFlagsBoth ==
  (/\ DerivedIsCurrent
   /\ WindAboveGuard(reading.wind)
   /\ reading.power > 0
   /\ RawCp > BETZ_LIMIT_E4) =>
     (derived.cp = SENTINEL_CP /\ derived.lambda = SENTINEL_CP)

\* Severity 2 of the alert schema's 1-3, the level getSeverityLevel gives
\* the warning-class alert types.
SEVERITY_WARNING == 2

\* C21: whenever a sampling tick computes a Cp above the Betz limit (and the
\* card takes the record), an alert of severity WARNING has been sent for
\* that tick and the persisted record carries the invalid Cp.
C21_BetzFaultRaisesWarning ==
  (/\ DerivedIsCurrent
   /\ persisted.written
   /\ WindAboveGuard(reading.wind)
   /\ reading.power > 0
   /\ RawCp > BETZ_LIMIT_E4) =>
     (/\ \E a \in tickAlerts : a.severity = SEVERITY_WARNING
      /\ persisted.cp = SENTINEL_CP)

\* ------------------------------------------------------------------------
\* RollingStatisticsAggregator claims (SpecStats)
\* ------------------------------------------------------------------------

\* The records the window holds: the last min(n, capacity) of the n added.
HeldCount == IF Len(added) < WindowCapacity THEN Len(added) ELSE WindowCapacity
HeldWinds == {added[i].wind : i \in (Len(added) - HeldCount + 1) .. Len(added)}

\* C8: after n add() calls calculateRecentStats reports sample_count =
\* min(n, capacity) and its statistics are those of exactly the most recent
\* min(n, capacity) records.
C8_StatsOverHeldRecords ==
  (statsFresh /\ Len(added) >= 1) =>
     /\ stats.sample_count = HeldCount
     /\ stats.wind_speed_min = SetMin(HeldWinds)
     /\ stats.wind_speed_max = SetMax(HeldWinds)

\* The power of the held records, oldest first, and its sum (W).
HeldPowers == [i \in 0 .. (HeldCount - 1) |->
                 added[Len(added) - HeldCount + 1 + i].power]
HeldPowerSum == SumOver(HeldPowers, HeldCount)

\* C23: calculateRecentStats integrates energy rectangularly: energy_wh is
\* the sum over the held records of power x 1 s, divided by 3600 (here in
\* mWh); N samples of constant power P give N * P / 3600, and 300 samples
\* of 100 W give 8.33 Wh.
C23_EnergyIsRectangularSum ==
  /\ statsFresh => stats.energy_wh = (1000 * HeldPowerSum) \div 3600
  /\ (statsFresh /\ \A i \in 0 .. (HeldCount - 1) : HeldPowers[i] = 100) =>
        stats.energy_wh = (1000 * HeldCount * 100) \div 3600
  /\ EnergyWh(300 * 100) = 8333

\* C23 witness: a full window of constant 100 W has been summarised.
C23_FullWindowConstantPower ==
  /\ statsFresh
  /\ HeldCount = WindowCapacity
  /\ \A i \in 0 .. (HeldCount - 1) : HeldPowers[i] = 100
  /\ stats.energy_wh = (1000 * WindowCapacity * 100) \div 3600

\* C24: calculateRecentStats leaves the window as it was: the buffers, the
\* write position and the number of held records are unchanged by the call,
\* and a second call with no add() in between returns the same statistics.
C24_CloseLeavesWindow ==
  [][statsFresh' =>
       /\ UNCHANGED <<wind_speed_buffer, power_buffer, writeIndex>>
       /\ HeldCount' = HeldCount
       /\ statsFresh => stats' = stats]_vars

\* C24 witness: two calculateRecentStats calls in a row on a window that
\* holds power, and the statistics still report it.
C24_ClosedTwice ==
  /\ closesSinceAdd = 2
  /\ HeldPowerSum > 0
  /\ stats.energy_wh = (1000 * HeldPowerSum) \div 3600

\* ------------------------------------------------------------------------
\* Main loop and network claims (SpecMain)
\* ------------------------------------------------------------------------

\* C11: each connect call makes exactly one handshake attempt and neither
\* sleeps nor retries inside the call; a failed attempt leaves the
\* publisher disconnected.
C11_OneHandshakePerConnect ==
  /\ handshakes <= 1
  /\ blockedMs = 0
  /\ (handshakes >= 1 /\ ~clientConnected /\ pcMain = "wifi") => ~mqttConnected

\* C13: while Wi-Fi or the broker is unreachable every sampling period
\* still has its sample: a sampling tick never comes a whole period or more
\* late, so no period passes without a sample.
C13_SamplingNeverBlocked ==
  /\ sampleGap < 2 * SAMPLE_INTERVAL_MS
  /\ pcMain = "sample" => millisNow - lastSampleTime < 2 * SAMPLE_INTERVAL_MS

\* C28: the sampling tick runs exactly once per 1000 ms period: the k-th
\* tick since setup() falls in the k-th period after it, so no period is
\* skipped, none is sampled twice and the schedule does not drift.
C28_OneSamplePerPeriod ==
  samplesTaken >= 1 =>
    /\ startTime + samplesTaken * SAMPLE_INTERVAL_MS <= lastSampleTime
    /\ lastSampleTime < startTime + (samplesTaken + 1) * SAMPLE_INTERVAL_MS

\* C27: every successful connect publishes the retained "online" status,
\* and on each connection the status is published before any data or alert
\* message of that connection: while the client is connected, the first
\* message of the connection is the status.
C27_StatusFirstOnConnection ==
  /\ mqttUp => connFirst = "status"
  /\ connFirst \in {"none", "status"}

\* C27 witness: a summary has been sent on a connection opened by a
\* reconnect in loop(), after that connection's status message.
C27_DataAfterStatus ==
  /\ mqttUp
  /\ connFirst = "status"
  /\ lastTx.path = "sent"
  /\ lastAttemptMs > 0

\* ------------------------------------------------------------------------
\* State machine claims (SpecFsm, SpecFsmLive)
\* ------------------------------------------------------------------------

\* Every sensor channel answers.
SensorsWork == hw.anem /\ hw.ina /\ hw.bme

\* C22: when a sensor channel's driver reports failure during a sampling
\* tick the tick still completes: the ACQUIRE stage passes its reading on to
\* PROCESS (and so to LOG); it is never diverted to an error state that
\* skips logging.
C22_TickSurvivesSensorFault ==
  [][(currentState = "ACQUIRE" /\ ~SensorsWork /\ currentState' # "ACQUIRE")
       => currentState' = "PROCESS"]_vars

\* The operation of the subsystem that owns a flag works (nothing is held
\* against the Wi-Fi and low-memory flags, whose subsystems are not modelled).
OwnerWorks(flag) ==
  CASE flag \in {"SD_INIT", "SD_WRITE"} -> hw.sd
    [] flag \in {"POWER_SENSOR"} -> hw.ina
    [] flag \in {"ENV_SENSOR"} -> hw.bme
    [] flag \in {"ANEMOMETER"} -> hw.anem
    [] flag \in {"SENSOR_INIT", "SENSOR_READ"} -> hw.ina /\ hw.bme
    [] flag \in {"MQTT", "MQTT_INIT"} -> hw.mqtt
    [] OTHER -> TRUE

\* handleError restarts the chip in this step.
Restarts == pcFsm = "loop" /\ pcFsm' = "setup"

C26_SamplingAndLoggingStayAlive ==
  <>[](~hw.mqtt /\ ~hw.ina /\ ~hw.bme /\ hw.sd) =>
     []<><<currentState = "LOG" /\ currentState' \in {"IDLE", "TRANSMIT"}>>_vars

\* Everything the firmware uses answers.
AllWork == SensorsWork /\ hw.sd /\ hw.mqtt

\* C29: from STATE_ERROR the machine returns to STATE_IDLE once the failed
\* operation works again: when the flags that are set are among those of
\* the sensor read, the anemometer, the environment sensor and the SD write,
\* and everything works, IDLE follows (unless something fails anew).
C29_ErrorStateIsLeft ==
  (/\ currentState = "ERROR"
   /\ errorFlags \subseteq {"SENSOR_READ", "ANEMOMETER", "ENV_SENSOR",
                             "SD_WRITE"}
   /\ AllWork)
     ~> (currentState = "IDLE" \/ ~AllWork)

C31_ElapsedTestIsExact ==
  (pcTimer = "wait" /\ lastElapsed < MillisWrap) =>
     (timerFired <=> lastElapsed >= LOG_INTERVAL)

\* C31 witness: the test fired at the right time across a wrap of the clock
\* (the clock value was below lastLogTime).
C31_FiredAcrossWrap ==
  /\ pcTimer = "wait"
  /\ timerFired
  /\ lastWrapped
  /\ lastElapsed >= LOG_INTERVAL
  /\ lastElapsed < MillisWrap

\* ------------------------------------------------------------------------
\* calculateCp claims (SpecCp)
\* ------------------------------------------------------------------------

\* The ratio of the call in hand, power / (0.5 * rho * A * v^3).
CpRatio == Ratio(cpArgs.power, CpWindPower(cpArgs.rho, cpArgs.area, cpArgs.wind))

\* The ratio of the call in hand exceeds 0.6.
CpRatioAboveLimit ==
  5 * (cpArgs.power * 100) > 3 * CpWindPower(cpArgs.rho, cpArgs.area, cpArgs.wind)

C33_TypicalCaseInRange ==
  cpTest = 1 => (cpAssert /\ cpResult > 2500 /\ cpResult < 4000)

\* ------------------------------------------------------------------------
\* Transmission interval and retry counter claims (SpecTx)
\* ------------------------------------------------------------------------

\* C34: after a successful data publish no further publish on the data topic
\* is attempted until cfg.intervalMs has elapsed, so two successful
\* publishes are never closer together than the transmission interval.
C34_NoSendWithinInterval ==
  [][/\ (TransmitCall /\ lastTx'.sends = 1 /\ lastSentMs >= 0) =>
          nowMs - lastSentMs >= cfg_intervalMs
     /\ (TransmitCall /\ lastTx'.path = "sent") =>
          (lastTxMillis' = nowMs /\ txRetryCount' = 0)
     /\ (sentGap' < 0 \/ sentGap' >= cfg_intervalMs)]_vars

\* C34 witness: a second successful publish, one interval after the first,
\* with calls in between that found the interval not elapsed.
C34_SecondSendAfterInterval ==
  /\ pcLoop = "alert"
  /\ lastTx.path = "sent"
  /\ sentGap = cfg_intervalMs
  /\ lastSentMs = nowMs

\* C35: whenever transmitAggregatedData or connectMQTT has returned,
\* 0 <= txRetryCount < cfg.maxRetry.
C35_RetryCountBelowMax ==
  0 <= txRetryCount /\ txRetryCount < cfg_maxRetry

\* C35 witness: transmitAggregatedData has returned from its last retry
\* before the interval is abandoned.
C35_LastRetryPending ==
  /\ pcLoop = "alert"
  /\ lastTx.path = "retry"
  /\ txRetryCount = cfg_maxRetry - 1

\* ------------------------------------------------------------------------
\* Example 07 reconnection claims (SpecPubLive)
\* ------------------------------------------------------------------------

\* C36: if the broker becomes reachable and stays so, the client of
\* example 07 reconnects and publishes again and again, however many
\* connection attempts failed before.
C36_ReconnectsWhenBrokerReturns ==
  (<>[]brokerUp) => ([]<>(pubConnected /\ lastPass = "published"))

\* ------------------------------------------------------------------------
\* Broker configuration claim (SpecMain)
\* ------------------------------------------------------------------------

\* C37: in the integrated firmware no connection attempt to the broker is
\* made before setServer has been called, also when Wi-Fi was down at boot
\* and comes up later through the periodic Wi-Fi check.
C37_NoConnectBeforeSetServer ==
  /\ ~connectUnset
  /\ clientConnected => serverSet

\* ------------------------------------------------------------------------
\* Rotor speed claim (SpecMain)
\* ------------------------------------------------------------------------

\* C38: from the second sampling tick on, the elapsed time that divides the
\* pulse count in the rpm computation equals the time between this reading
\* and zeroing of pulseCount and the previous one.
C38_DivisorIsCountingWindow ==
  samplesTaken >= 2 => rpmPeriod = countWindow

\* ------------------------------------------------------------------------
\* Sentinel claim (SpecStats)
\* ------------------------------------------------------------------------

\* The power values calculateRecentStats has summed into energy_wh.
SummedPowers == {power_buffer[i] : i \in 0 .. (stats.sample_count - 1)}

\* C39: a sentinel-invalid reading (-999) is never an operand of an
\* aggregated quantity: no power value that calculateRecentStats has summed
\* into energy_wh is the sentinel.
C39_SentinelNeverAggregated ==
  statsFresh => SENTINEL_POWER_W \notin SummedPowers

====
